---- MODULE Spec2Model ----
(***************************************************************************)
(* Model of the visual state-machine editor of uav_mission_editor:         *)
(* the projection of a mission type's state machine to a graph             *)
(* (build_graph_elements), the reconciliation of an edited graph with the  *)
(* state machine (handle_new_edges, handle_deleted_edges,                  *)
(* handle_deleted_nodes) and the sidebar operations, as one Streamlit      *)
(* script run per action.                                                  *)
(*                                                                         *)
(* Python strings are sequences of one-character strings, so that the      *)
(* edge-id encoding f"{src}|{tgt}|{indices}", its decoding split("|") and  *)
(* the substring test "error" in id are computed as the code computes them.*)
(***************************************************************************)
EXTENDS Integers, Sequences, FiniteSets, TLC

\* ------------------------------------------------------------------ bounds
\* longest transition list of a state in an initial file
MaxTrans == 2
\* most transitions in the whole state machine handed to the projection
MaxProjTrans == 3
\* most edges the user draws in one interaction
MaxNewEdges == 2
\* most script runs that reset the flow state (cap of flow_version)
MaxVersion == 3

\* ----------------------------------------------------------------- strings
EmptyStr == << >>
PIPE == <<"|">>
COMMA == <<",">>
END == <<"e", "n", "d">>
ERROR == <<"e", "r", "r", "o", "r">>
TRUE_COND == <<"T", "r", "u", "e">>
ELSE_COND == <<"e", "l", "s", "e">>
DOTS == <<".", ".", ".">>
BAR_SEP == <<" ", "|", " ">>
CONDITIONS_SUFFIX == <<" ", "c", "o", "n", "d", "i", "t", "i", "o", "n", "s">>
\* the template "{locations_to_be_visited} == []" of CONDITION_TEMPLATES (31 characters)
LONG_COND ==
    <<"{", "l", "o", "c", "a", "t", "i", "o", "n", "s", "_", "t", "o", "_", "b", "e",
      "_", "v", "i", "s", "i", "t", "e", "d", "}", " ", "=", "=", " ", "[", "]">>
STATE_A == <<"a">>
STATE_B == <<"b">>
SEARCH == <<"s", "e", "a", "r", "c", "h">>
NEW_EDGE_PREFIX == <<"s", "t", "-", "f", "l", "o", "w", "-", "e", "d", "g", "e", "_">>
DASH == <<"-">>

\* the characters of the model in code-point order (Python compares str by code point)
CharOrder ==
    <<" ", ",", "-", ".", "0", "1", "2", "3", "4", "5", "6", "7", "8", "9", "=",
      "T", "[", "]", "_", "a", "b", "c", "d", "e", "f", "g", "h", "i", "l", "n",
      "o", "r", "s", "t", "u", "v", "w", "{", "|", "}">>

CharCode(c) == CHOOSE i \in 1..Len(CharOrder) : CharOrder[i] = c

\* s < t for Python strings
RECURSIVE StrLess(_, _)
StrLess(s, t) ==
    IF t = << >> THEN FALSE
    ELSE IF s = << >> THEN TRUE
    ELSE IF Head(s) = Head(t) THEN StrLess(Tail(s), Tail(t))
    ELSE CharCode(Head(s)) < CharCode(Head(t))

\* sub in s
Contains(s, sub) ==
    \E i \in 1..(Len(s) - Len(sub) + 1) : SubSeq(s, i, i + Len(sub) - 1) = sub

\* s[:n]
Prefix(s, n) == SubSeq(s, 1, IF n < Len(s) THEN n ELSE Len(s))

Digits == <<"0", "1", "2", "3", "4", "5", "6", "7", "8", "9">>

\* str(n) for n >= 0
RECURSIVE Str(_)
Str(n) == IF n < 10 THEN <<Digits[n + 1]>> ELSE Str(n \div 10) \o <<Digits[(n % 10) + 1]>>

\* sep.join(parts)
RECURSIVE Join(_, _)
Join(parts, sep) ==
    IF parts = << >> THEN << >>
    ELSE IF Len(parts) = 1 THEN parts[1]
    ELSE parts[1] \o sep \o Join(Tail(parts), sep)

\* s.split(c) for a one-character separator c
RECURSIVE SplitAcc(_, _, _)
SplitAcc(s, c, cur) ==
    IF s = << >> THEN <<cur>>
    ELSE IF Head(s) = c THEN <<cur>> \o SplitAcc(Tail(s), c, << >>)
    ELSE SplitAcc(Tail(s), c, Append(cur, Head(s)))

Split(s, c) == SplitAcc(s, c, << >>)

\* sorted(list of strings without duplicates)
RECURSIVE SortedStrs(_)
SortedStrs(S) ==
    IF S = {} THEN << >>
    ELSE LET m == CHOOSE x \in S : \A y \in S \ {x} : StrLess(x, y)
         IN <<m>> \o SortedStrs(S \ {m})

Range(s) == {s[i] : i \in 1..Len(s)}

\* the orders in which a Python set of strings may be iterated
Perms(S) == {p \in [1..Cardinality(S) -> S] : \A i, j \in 1..Cardinality(S) : p[i] = p[j] => i = j}

\* -------------------------------------------------------------- data model
\* A state machine is the ordered dict config["states"]: a sequence of entries
\* [id, shape, conds, err]. shape tells what the value of the key is:
\*   "null"     None
\*   "empty"    {}
\*   "no_trans" a dict with other keys (prompt, tools) but no "state_transitions"
\*   "dict"     a dict with "state_transitions"; conds is its "conditions" list,
\*              err is <<>> without an "error" key and <<target>> with one
Shapes == {"null", "empty", "no_trans", "dict"}

Transition(c, t) == [condition |-> c, next_state |-> t]

\* the value render_create_state_panel and build_graph_elements create
NewStateData(id) == [id |-> id, shape |-> "dict", conds |-> << >>, err |-> << >>]

Keys(states) == [i \in 1..Len(states) |-> states[i].id]
KeySet(states) == {states[i].id : i \in 1..Len(states)}
Has(states, id) == id \in KeySet(states)
IndexOf(states, id) == CHOOSE i \in 1..Len(states) : states[i].id = id
Get(states, id) == states[IndexOf(states, id)]

\* bool(s_data): None and {} are falsy
Truthy(st) == st.shape \in {"no_trans", "dict"}

\* s_data.get("state_transitions", {}).get("conditions", [])
CondsOf(st) == IF st.shape = "dict" THEN st.conds ELSE << >>
\* s_data.get("state_transitions", {}).get("error", {}).get("next_state")
ErrTargetOf(st) == IF st.shape = "dict" /\ st.err # << >> THEN st.err[1] ELSE EmptyStr

\* del states[id]
DelKey(states, id) == SelectSeq(states, LAMBDA st : st.id # id)

\* ------------------------------------------------------------- projection
\* the keys of target_conditions in insertion order: the truthy next_state values
\* of conds in order of first occurrence
RECURSIVE FirstTargets(_, _)
FirstTargets(conds, seen) ==
    IF conds = << >> THEN << >>
    ELSE LET nxt == Head(conds).next_state
         IN IF nxt # EmptyStr /\ nxt \notin seen
            THEN <<nxt>> \o FirstTargets(Tail(conds), seen \cup {nxt})
            ELSE FirstTargets(Tail(conds), seen)

\* (mutant) the pairs in descending order of j
RECURSIVE CondListDescending(_, _, _)
CondListDescending(conds, nxt, j) ==
    IF conds = << >> THEN << >>
    ELSE CondListDescending(Tail(conds), nxt, j + 1) \o
         (IF Head(conds).next_state = nxt
          THEN <<[idx |-> j, cond |-> Head(conds).condition]>>
          ELSE << >>)

\* target_conditions[nxt]: the (j, cond) pairs of the transitions to nxt, j from 0
RECURSIVE CondList(_, _, _)
CondList(conds, nxt, j) ==
    IF conds = << >> THEN << >>
    ELSE (IF Head(conds).next_state = nxt
          THEN <<[idx |-> j, cond |-> Head(conds).condition]>>
          ELSE << >>) \o CondList(Tail(conds), nxt, j + 1)

\* the display label of a grouped edge
EdgeLabel(cond_list) ==
    IF Len(cond_list) = 1
    THEN LET c == cond_list[1].cond
         IN IF Len(c) > 30 THEN Prefix(c, 27) \o DOTS ELSE c
    ELSE LET labels == [k \in 1..Len(cond_list) |->
                          IF Len(cond_list[k].cond) < 25 THEN cond_list[k].cond
                          ELSE Prefix(cond_list[k].cond, 22) \o DOTS]
             joined == Join(labels, BAR_SEP)
         IN IF Len(joined) > 50 THEN Str(Len(cond_list)) \o CONDITIONS_SUFFIX ELSE joined

\* edge_id = f"{state_name}|{nxt}|{indices_str}"
EdgeId(state_name, nxt, cond_list) ==
    state_name \o PIPE \o nxt \o PIPE
        \o Join([k \in 1..Len(cond_list) |-> Str(cond_list[k].idx)], COMMA)

\* f"{state_name}|{err.get('next_state')}|error"
ErrorEdgeId(state_name, nxt) == state_name \o PIPE \o nxt \o PIPE \o ERROR

\* (mutant) the error transition grouped with the ordinary transitions
StateEdgesMerged(st) ==
    LET conds == CondsOf(st) \o
                 (IF ErrTargetOf(st) # EmptyStr THEN <<Transition(ERROR, ErrTargetOf(st))>> ELSE << >>)
        tgts == FirstTargets(conds, {})
    IN [k \in 1..Len(tgts) |->
          LET cl == CondList(conds, tgts[k], 0)
          IN [id |-> EdgeId(st.id, tgts[k], cl), source |-> st.id,
              target |-> tgts[k], label |-> EdgeLabel(cl), error |-> FALSE]]

\* the edges build_graph_elements appends for one state: one per target, then the
\* error edge (its label stands for the text "error" with its warning sign)
StateEdges(st) ==
    LET conds == CondsOf(st)
        tgts == FirstTargets(conds, {})
        ordinary == [k \in 1..Len(tgts) |->
                       LET cl == CondList(conds, tgts[k], 0)
                       IN [id |-> EdgeId(st.id, tgts[k], cl), source |-> st.id,
                           target |-> tgts[k], label |-> EdgeLabel(cl), error |-> FALSE]]
        nxt == ErrTargetOf(st)
    IN ordinary \o
       (IF nxt # EmptyStr
        THEN <<[id |-> ErrorEdgeId(st.id, nxt), source |-> st.id, target |-> nxt,
                label |-> ERROR, error |-> TRUE]>>
        ELSE << >>)

\* states after the first loop of build_graph_elements: a None value is replaced,
\* in the caller's dict, by an empty state
FillNulls(states) ==
    [i \in 1..Len(states) |->
        IF states[i].shape = "null" THEN NewStateData(states[i].id) ELSE states[i]]

\* (mutant) `referenced` without the error targets
ReferencedNoError(states) ==
    {t \in UNION {{CondsOf(states[i])[j].next_state : j \in 1..Len(CondsOf(states[i]))}
                    : i \in {k \in 1..Len(states) : Truthy(states[k])}} :
        t # EmptyStr}

\* the set `referenced`: every truthy target of a truthy state
Referenced(states) ==
    {t \in UNION {{CondsOf(states[i])[j].next_state : j \in 1..Len(CondsOf(states[i]))}
                    \cup {ErrTargetOf(states[i])} : i \in {k \in 1..Len(states) : Truthy(states[k])}} :
        t # EmptyStr}

\* get_state_type(state_name, state_data)
get_state_type(state_name, st) ==
    IF state_name = END THEN "end"
    ELSE IF state_name = ERROR THEN "error"
    ELSE IF Truthy(st) /\ CondsOf(st) # << >>
            /\ \A j \in 1..Len(CondsOf(st)) : CondsOf(st)[j].next_state \in {END, ERROR}
         THEN "end"
         ELSE "normal"

\* the node build_graph_elements appends for a defined state
StateNode(st, initial_state) ==
    [id |-> st.id, deletable |-> TRUE, initial |-> (st.id = initial_state),
     type |-> get_state_type(st.id, st)]

\* the dashed node appended for a referenced id that is no key of states
PlaceholderNode(ref) ==
    [id |-> ref, deletable |-> FALSE, initial |-> FALSE,
     type |-> IF ref = END THEN "end" ELSE IF ref = ERROR THEN "error" ELSE "undefined"]

RECURSIVE FlattenSeqs(_)
FlattenSeqs(ss) == IF ss = << >> THEN << >> ELSE Head(ss) \o FlattenSeqs(Tail(ss))

\* (mutant) the loop over `referenced` left after its first element
PlaceholdersFirst(ref_order, states, nodes) ==
    IF ref_order = << >> THEN nodes
    ELSE LET ref == Head(ref_order)
         IN IF ref # EmptyStr /\ ~Has(states, ref) /\ ~(\E k \in 1..Len(nodes) : nodes[k].id = ref)
            THEN Append(nodes, PlaceholderNode(ref))
            ELSE nodes

\* the placeholder nodes appended for ref_order, the iteration order of `referenced`
RECURSIVE Placeholders(_, _, _)
Placeholders(ref_order, states, nodes) ==
    IF ref_order = << >> THEN nodes
    ELSE LET ref == Head(ref_order)
         IN Placeholders(Tail(ref_order), states,
               IF ref # EmptyStr /\ ~Has(states, ref) /\ ~(\E k \in 1..Len(nodes) : nodes[k].id = ref)
               THEN Append(nodes, PlaceholderNode(ref))
               ELSE nodes)

\* build_graph_elements(states, initial_state): the nodes, the edges and the states
\* dict as the call leaves it. ref_order is the order in which the set `referenced`
\* is iterated.
build_graph_elements(states, initial_state, ref_order) ==
    LET filled == FillNulls(states)
        state_names == SortedStrs(KeySet(states))
        defined == [i \in 1..Len(state_names) |->
                      StateNode(Get(filled, state_names[i]), initial_state)]
        edges == FlattenSeqs([i \in 1..Len(state_names) |-> StateEdges(Get(filled, state_names[i]))])
    IN [nodes |-> Placeholders(ref_order, filled, defined), edges |-> edges, states |-> filled]

\* (mutant) the grid with the rows 0 apart
GridPosOneRow(i) == <<100 + (i % 2) * 300, 80>>

\* the position of the node appended as the (i+1)-th: in two columns, 300 apart,
\* the rows 200 apart
GridPos(i) == <<100 + (i % 2) * 300, 80 + (i \div 2) * 200>>

\* the nodes with the positions build_graph_elements gives them for
\* ui_metadata["positions"] = positions (a function from ids to positions): the
\* stored position of the id, the grid position of the node's index otherwise
Positioned(nodes, positions) ==
    [k \in 1..Len(nodes) |->
        [id |-> nodes[k].id,
         pos |-> IF nodes[k].id \in DOMAIN positions THEN positions[nodes[k].id]
                 ELSE GridPos(k - 1)]]

NodeIds(nodes) == {nodes[k].id : k \in 1..Len(nodes)}
\* {n.id for n in new_state.nodes}
FlowNodeIds(fl) == {n.id : n \in fl.nodes}
EdgeIds(edges) == {edges[k].id : k \in 1..Len(edges)}


\* ---------------------------------------------------------- reconciliation
\* The three passes thread one record: states is the dict `states` (shared with
\* `details`), changed the pass's flag, disk what save_mission_type wrote last,
\* saves the number of its calls, crashed whether an exception ended the run.

\* save_mission_type(m_type, details, prefer_yaml=True) with details holding
\* initial_state and states
Saved(acc, initial_state) ==
    [acc EXCEPT !.disk = [initial_state |-> initial_state, states |-> acc.states],
                !.saves = @ + 1, !.changed = TRUE]

\* states[src].setdefault("state_transitions", {}).setdefault("conditions", [])
EnsureTrans(st) ==
    IF st.shape = "dict" THEN st ELSE [st EXCEPT !.shape = "dict", !.conds = << >>, !.err = << >>]

Put(states, st) == [i \in 1..Len(states) |-> IF states[i].id = st.id THEN st ELSE states[i]]

\* any(c.get("next_state") == tgt for c in conds)
TargetsOf(conds) == {conds[j].next_state : j \in 1..Len(conds)}

\* (mutant) handle_new_edges without the test edge.id not in original_ids
RECURSIVE handle_new_edges_unfiltered(_, _, _, _)
handle_new_edges_unfiltered(edges, original_ids, acc, initial_state) ==
    IF edges = << >> THEN acc
    ELSE LET edge == Head(edges)
             st == EnsureTrans(Get(acc.states, edge.source))
             appended == [st EXCEPT !.conds = Append(@, Transition(TRUE_COND, edge.target))]
         IN handle_new_edges_unfiltered(Tail(edges), original_ids,
               IF Has(acc.states, edge.source)
               THEN IF edge.target \notin TargetsOf(st.conds)
                    THEN Saved([acc EXCEPT !.states = Put(acc.states, appended)], initial_state)
                    ELSE [acc EXCEPT !.states = Put(acc.states, st)]
               ELSE acc,
               initial_state)

\* (mutant) handle_new_edges without the test that no transition targets tgt yet
RECURSIVE handle_new_edges_always(_, _, _, _)
handle_new_edges_always(edges, original_ids, acc, initial_state) ==
    IF edges = << >> THEN acc
    ELSE LET edge == Head(edges)
             st == EnsureTrans(Get(acc.states, edge.source))
             appended == [st EXCEPT !.conds = Append(@, Transition(TRUE_COND, edge.target))]
         IN handle_new_edges_always(Tail(edges), original_ids,
               IF edge.id \notin original_ids /\ Has(acc.states, edge.source)
               THEN Saved([acc EXCEPT !.states = Put(acc.states, appended)], initial_state)
               ELSE acc,
               initial_state)

\* handle_new_edges(new_state, original_edges, states, details, m_type), edges being
\* new_state.edges and original_ids the ids of original_edges
RECURSIVE handle_new_edges(_, _, _, _)
handle_new_edges(edges, original_ids, acc, initial_state) ==
    IF edges = << >> THEN acc
    ELSE LET edge == Head(edges)
             st == EnsureTrans(Get(acc.states, edge.source))
             appended == [st EXCEPT !.conds = Append(@, Transition(TRUE_COND, edge.target))]
         IN handle_new_edges(Tail(edges), original_ids,
               IF edge.id \notin original_ids /\ Has(acc.states, edge.source)
               THEN IF edge.target \notin TargetsOf(st.conds)
                    THEN Saved([acc EXCEPT !.states = Put(acc.states, appended)], initial_state)
                    ELSE [acc EXCEPT !.states = Put(acc.states, st)]
               ELSE acc,
               initial_state)

\* conds.pop(idx) for the first idx with conds[idx]["next_state"] == tgt
PopFirst(conds, tgt) ==
    LET idx == CHOOSE j \in 1..Len(conds) :
                  conds[j].next_state = tgt /\ \A n \in 1..(j - 1) : conds[n].next_state # tgt
    IN SubSeq(conds, 1, idx - 1) \o SubSeq(conds, idx + 1, Len(conds))

\* (mutant) the body for one edge, every edge taken for an ordinary one
deleted_edge_ordinary(orig_edge, acc, initial_state) ==
    LET parts == Split(orig_edge.id, "|")
        src == parts[1]
        tgt == parts[2]
        st == Get(acc.states, src)
    IN IF Len(parts) >= 2 /\ Has(acc.states, src) /\ tgt \in TargetsOf(CondsOf(st))
       THEN Saved([acc EXCEPT !.states = Put(acc.states, [st EXCEPT !.conds = PopFirst(@, tgt)])],
                  initial_state)
       ELSE acc

\* the body of the loop of handle_deleted_edges for one edge of original_edges that
\* is not among the current edges
deleted_edge(orig_edge, acc, initial_state) ==
    LET parts == Split(orig_edge.id, "|")
        src == parts[1]
        tgt == parts[2]
        is_error == Contains(orig_edge.id, ERROR)
        st == Get(acc.states, src)
    IN IF Len(parts) >= 2 /\ Has(acc.states, src)
       THEN IF is_error
            THEN IF st.shape = "dict" /\ st.err # << >>
                 THEN Saved([acc EXCEPT !.states = Put(acc.states, [st EXCEPT !.err = << >>])],
                            initial_state)
                 ELSE acc
            ELSE IF tgt \in TargetsOf(CondsOf(st))
                 THEN Saved([acc EXCEPT !.states =
                                Put(acc.states, [st EXCEPT !.conds = PopFirst(@, tgt)])],
                            initial_state)
                 ELSE acc
       ELSE acc

\* handle_deleted_edges(new_state, original_edges, states, details, m_type)
RECURSIVE handle_deleted_edges(_, _, _, _)
handle_deleted_edges(original_edges, current_edge_ids, acc, initial_state) ==
    IF original_edges = << >> THEN acc
    ELSE handle_deleted_edges(Tail(original_edges), current_edge_ids,
            IF Head(original_edges).id \notin current_edge_ids
            THEN deleted_edge(Head(original_edges), acc, initial_state)
            ELSE acc,
            initial_state)

\* the clean-up of one remaining state that has state_transitions: the transitions
\* to state_id are filtered out, an error transition to it is deleted
cascade_one(st, state_id) ==
    [st EXCEPT !.conds = SelectSeq(@, LAMBDA c : c.next_state # state_id),
               !.err = IF @ = <<state_id>> THEN << >> ELSE @]

\* the loop "for s_name, s_data in states.items()" of delete_state and
\* handle_deleted_nodes from position k on: a dict without "state_transitions"
\* raises KeyError at s_data["state_transitions"], with the earlier states cleaned
RECURSIVE cascade(_, _, _)
cascade(states, k, state_id) ==
    IF k > Len(states) THEN [states |-> states, crashed |-> FALSE]
    ELSE IF ~Truthy(states[k]) THEN cascade(states, k + 1, state_id)
    ELSE IF states[k].shape = "no_trans" THEN [states |-> states, crashed |-> TRUE]
    ELSE cascade([i \in 1..Len(states) |->
                     IF i = k THEN cascade_one(states[k], state_id) ELSE states[i]],
                 k + 1, state_id)

\* (mutant) handle_deleted_nodes without the test orig_node.id in states
RECURSIVE handle_deleted_nodes_any(_, _, _, _)
handle_deleted_nodes_any(original_nodes, current_node_ids, acc, initial_state) ==
    IF original_nodes = << >> \/ acc.crashed THEN acc
    ELSE LET id == Head(original_nodes).id
             c == cascade(DelKey(acc.states, id), 1, id)
         IN handle_deleted_nodes_any(Tail(original_nodes), current_node_ids,
               IF id \notin current_node_ids
               THEN IF c.crashed
                    THEN [acc EXCEPT !.states = c.states, !.crashed = TRUE,
                                     !.deleted = @ \cup {id}]
                    ELSE [Saved([acc EXCEPT !.states = c.states], initial_state)
                             EXCEPT !.deleted = @ \cup {id}]
               ELSE acc,
               initial_state)

\* handle_deleted_nodes(new_state, original_nodes, states, details, m_type)
RECURSIVE handle_deleted_nodes(_, _, _, _)
handle_deleted_nodes(original_nodes, current_node_ids, acc, initial_state) ==
    IF original_nodes = << >> \/ acc.crashed THEN acc
    ELSE LET id == Head(original_nodes).id
             c == cascade(DelKey(acc.states, id), 1, id)
         IN handle_deleted_nodes(Tail(original_nodes), current_node_ids,
               IF id \notin current_node_ids /\ Has(acc.states, id)
               THEN IF c.crashed
                    THEN [acc EXCEPT !.states = c.states, !.crashed = TRUE,
                                     !.deleted = @ \cup {id}]
                    ELSE [Saved([acc EXCEPT !.states = c.states], initial_state)
                             EXCEPT !.deleted = @ \cup {id}]
               ELSE acc,
               initial_state)

\* lines 99-116 of render_visual_state_editor: initial_state is made a key of states
Normalise(cfg) ==
    IF cfg.states # << >> /\ (cfg.initial_state = EmptyStr \/ ~Has(cfg.states, cfg.initial_state))
    THEN [cfg EXCEPT !.initial_state = cfg.states[1].id]
    ELSE cfg

\* (mutant) the three passes without the test of skipping_sync
PassesAlways(new_state, g, initial_state, d, skipping_sync) ==
    LET a0 == [states |-> g.states, changed |-> FALSE, disk |-> d, saves |-> 0,
               crashed |-> FALSE, deleted |-> {}]
        a1 == handle_new_edges(new_state.edges, EdgeIds(g.edges), a0, initial_state)
        a2 == handle_deleted_edges(g.edges, EdgeIds(new_state.edges), a1, initial_state)
        a3 == handle_deleted_nodes(g.nodes, FlowNodeIds(new_state), a2, initial_state)
    IN [a0 |-> a0, a1 |-> a1, a2 |-> a2, a3 |-> a3]

\* lines 161-168: the three passes of one script run, in the code's order: a1, a2
\* and a3 are the records after each pass, a0 the record before the first.
Passes(new_state, g, initial_state, d, skipping_sync) ==
    LET a0 == [states |-> g.states, changed |-> FALSE, disk |-> d, saves |-> 0,
               crashed |-> FALSE, deleted |-> {}]
        a1 == handle_new_edges(new_state.edges, EdgeIds(g.edges), a0, initial_state)
        a2 == handle_deleted_edges(g.edges, EdgeIds(new_state.edges), a1, initial_state)
        a3 == handle_deleted_nodes(g.nodes, FlowNodeIds(new_state), a2, initial_state)
    IN IF skipping_sync THEN [a0 |-> a0, a1 |-> a0, a2 |-> a0, a3 |-> a0]
       ELSE [a0 |-> a0, a1 |-> a1, a2 |-> a2, a3 |-> a3]

\* ------------------------------------------------------------------- state
VARIABLES
    disk,            \* the mission type's file: [initial_state, states]
    flow,            \* st.session_state[flow_state_key]: [set, nodes, edges]; ~set is None
    flow_version,    \* st.session_state[flow_version_key]
    skip_sync_once,  \* st.session_state.skip_sync_once
    last,            \* what the last script run did (history, read by the properties)
    graph,           \* the last result of build_graph_elements on its own
    files,           \* the files of the mission type's name in configs/mission_types
    dataset          \* the missions of the project and the split files of their export

vars == <<disk, flow, flow_version, skip_sync_once, last, graph, files, dataset>>

\* the flow state keeps its nodes as a set: the runs read them as a set of ids
NoFlow == [set |-> FALSE, nodes |-> {}, edges |-> << >>]
NoGraph == [built |-> FALSE, nodes |-> << >>, edges |-> << >>, states |-> << >>, input |-> << >>]
NoRun == [op |-> "none"]

\* a file that does not exist, and the directory without a file of the name
NoFile == [exists |-> FALSE]
NoFiles == [json |-> NoFile, yaml |-> NoFile, yml |-> NoFile]

\* no mission and no exported file
NoDataset == [missions |-> << >>, exported |-> FALSE]

\* ------------------------------------------------------------ input files
StateNames == {STATE_A, STATE_B}
Targets == {STATE_B, END, ERROR}
ErrTargets == {STATE_B}

\* the states values of key id with exactly n transitions, every condition cond
DictValues(id, n, cond) ==
    {[id |-> id, shape |-> "dict", conds |-> [j \in 1..n |-> Transition(cond, tg[j])], err |-> e] :
        tg \in [1..n -> Targets], e \in {<< >>} \cup {<<t>> : t \in ErrTargets}}

\* the values that are no dict with state_transitions
OddValues(id) == {[id |-> id, shape |-> sh, conds |-> << >>, err |-> << >>] :
                    sh \in {"null", "empty", "no_trans"}}

\* the values of key id with at most n transitions
ValuesUpTo(id, n, cond) == OddValues(id) \cup UNION {DictValues(id, k, cond) : k \in 0..n}

\* the state machines over StateNames with at most n transitions in all, every
\* condition cond
MachinesUpTo(n, cond) ==
    {<< >>}
    \cup {<<x>> : x \in ValuesUpTo(STATE_A, n, cond) \cup ValuesUpTo(STATE_B, n, cond)}
    \cup UNION {UNION {{<<x, y>>, <<y, x>>} :
                    x \in DictValues(STATE_A, k, cond),
                    y \in ValuesUpTo(STATE_B, n - k, cond)} : k \in 0..n}
    \cup UNION {{<<x, y>>, <<y, x>>} : x \in OddValues(STATE_A), y \in ValuesUpTo(STATE_B, n, cond)}

\* ------------------------------------------------- projection on its own
InitProj ==
    /\ \E c \in {TRUE_COND, LONG_COND} : \E m \in MachinesUpTo(MaxProjTrans, c) :
          disk = [initial_state |-> STATE_A, states |-> m]
    /\ flow = NoFlow
    /\ flow_version = 0
    /\ skip_sync_once = FALSE
    /\ last = NoRun
    /\ graph = NoGraph
    /\ files = NoFiles
    /\ dataset = NoDataset

\* nodes, edges = build_graph_elements(states, initial_state)
Project ==
    /\ ~graph.built
    /\ \E ro \in Perms(Referenced(disk.states)) :
          LET g == build_graph_elements(disk.states, disk.initial_state, ro)
          IN graph' = [built |-> TRUE, nodes |-> g.nodes, edges |-> g.edges,
                       states |-> g.states, input |-> disk.states]
    /\ UNCHANGED <<disk, flow, flow_version, skip_sync_once, last, files, dataset>>

NextProj == Project

SpecProj == InitProj /\ [][NextProj]_vars


\* ------------------------------------------------------- the script runs
\* the file of the mission type when the editor is opened
\* the files the editor is opened on: state a with at most MaxTrans transitions
\* and possibly an error transition, state b of any shape, at most MaxTrans
\* transitions in both
PlainValues(id, n) ==
    OddValues(id) \cup {st \in UNION {DictValues(id, k, TRUE_COND) : k \in 0..n} : st.err = << >>}

EditorMachines ==
    {<< >>}
    \cup {<<x>> : x \in UNION {DictValues(STATE_A, k, TRUE_COND) : k \in 0..MaxTrans}}
    \cup {<<y>> : y \in PlainValues(STATE_B, MaxTrans)}
    \cup UNION {{<<x, y>> : x \in DictValues(STATE_A, k, TRUE_COND),
                             y \in PlainValues(STATE_B, MaxTrans - k)} : k \in 0..MaxTrans}

Init ==
    /\ \E m \in EditorMachines, i \in {STATE_A, EmptyStr} :
          disk = [initial_state |-> i, states |-> m]
    /\ flow = NoFlow
    /\ flow_version = 0
    /\ skip_sync_once = FALSE
    /\ last = NoRun
    /\ graph = NoGraph
    /\ files = NoFiles
    /\ dataset = NoDataset

\* an edge the component adds when the user connects two nodes
DrawnEdge(src, tgt) ==
    [id |-> NEW_EDGE_PREFIX \o src \o DASH \o tgt, source |-> src, target |-> tgt,
     label |-> EmptyStr, error |-> FALSE]

IsDrawn(e) == Prefix(e.id, Len(NEW_EDGE_PREFIX)) = NEW_EDGE_PREFIX

\* the states the component may return for the flow state fl after one interaction
\* on the canvas: nothing changed, an edge drawn (n times), an edge deleted, or a
\* deletable node deleted, with or without the edges at it
CanvasEdits(fl) ==
    {fl}
    \cup {[fl EXCEPT !.edges = @ \o [k \in 1..n |-> DrawnEdge(src, tgt)]] :
            src \in FlowNodeIds(fl), tgt \in FlowNodeIds(fl),
            n \in 1..(MaxNewEdges - Len(SelectSeq(fl.edges, IsDrawn)))}
    \cup {[fl EXCEPT !.edges = SelectSeq(@, LAMBDA e : e.id # fl.edges[k].id)] :
            k \in 1..Len(fl.edges)}
    \cup UNION {{[fl EXCEPT !.nodes = @ \ {nd}],
                 [fl EXCEPT !.nodes = @ \ {nd},
                            !.edges = SelectSeq(@, LAMBDA e : e.source # nd.id /\ e.target # nd.id)]} :
                  nd \in {n \in fl.nodes : n.deletable}}

\* reset_flow_state(m_type) is possible while the version counter is below its cap
CanReset == flow_version < MaxVersion

\* the record of a script run: the file before it, the projection (before), what
\* the component returned (after), the records of the passes, the states dict when
\* the run ended (final), the states it deleted, whether an exception ended it and
\* how often it called save_mission_type
RunRecord(op, cfg, g, new_state, ps, final, deleted, crashed, saves) ==
    [op |-> op, disk0 |-> disk, initial_state |-> cfg.initial_state,
     before |-> [nodes |-> Range(g.nodes), edges |-> g.edges], after |-> new_state,
     synced |-> ~skip_sync_once,
     a0 |-> ps.a0, a1 |-> ps.a1, a2 |-> ps.a2, a3 |-> ps.a3,
     final |-> final, deleted |-> deleted, crashed |-> crashed, saves |-> saves]

\* the states of the flow the passes may be handed for the projection fl: changes
\* of at most two of three kinds, the kinds being a node missing, an edge missing,
\* and a new edge; or one new edge drawn MaxNewEdges times
Diffs(fl) ==
    LET Gone == {{}} \cup {{nd} : nd \in fl.nodes}
        Cut == {{}} \cup {{fl.edges[k].id} : k \in 1..Len(fl.edges)}
        Drawn == {<< >>} \cup {<<DrawnEdge(src, tgt)>> :
                                  src \in FlowNodeIds(fl), tgt \in FlowNodeIds(fl)}
        Repeated == {[k \in 1..MaxNewEdges |-> DrawnEdge(src, tgt)] :
                        src \in FlowNodeIds(fl), tgt \in FlowNodeIds(fl)}
        Changed(gone, cut, drawn) ==
            [set |-> TRUE, nodes |-> fl.nodes \ gone,
             edges |-> SelectSeq(fl.edges, LAMBDA e : e.id \notin cut) \o drawn]
    IN {Changed(gone, cut, << >>) : gone \in Gone, cut \in Cut}
       \cup {Changed(gone, {}, drawn) : gone \in Gone, drawn \in Drawn}
       \cup {Changed({}, cut, drawn) : cut \in Cut, drawn \in Drawn}
       \cup {Changed({}, {}, drawn) : drawn \in Repeated}

\* One run of render_visual_state_editor in which no sidebar button is pressed: the
\* file is loaded and normalised, the graph built, the component returns new_state
\* (the flow state as it is, a canvas edit of it, with op "touch" one that leaves at
\* most one drawn edge waiting, or any small difference), the
\* three passes run; then either an exception ends
\* the run, or the passes changed something (reset_flow_state, st.rerun), or the run
\* goes on to store new_state and save the positions (which writes details to the
\* file). A run reads the nodes as a set of ids and its passes skip the
\* placeholders, so the order in which `referenced` is iterated shows in nothing
\* the run does; it is taken sorted here, and in every order by Project.
Run(op) ==
    /\ last = NoRun
    /\ LET cfg == Normalise(disk)
       IN   LET ro == SortedStrs(Referenced(cfg.states))
                g == build_graph_elements(cfg.states, cfg.initial_state, ro)
                flow0 == IF flow.set THEN flow
                         ELSE [set |-> TRUE, nodes |-> Range(g.nodes), edges |-> g.edges]
            IN \E new_state \in (IF op = "canvas" THEN CanvasEdits(flow0)
                                  ELSE IF op = "idle" THEN {flow0}
                                  ELSE IF op = "touch"
                                  THEN {e \in CanvasEdits(flow0) :
                                          Len(SelectSeq(e.edges, IsDrawn)) <= 1}
                                  ELSE Diffs(flow0)) :
                 LET ps == Passes(new_state, g, cfg.initial_state, disk, skip_sync_once)
                     a3 == ps.a3
                 IN /\ a3.changed => CanReset
                    /\ last' = RunRecord(op, cfg, g, new_state, ps, a3.states, a3.deleted,
                                          a3.crashed,
                                          IF a3.crashed \/ a3.changed THEN a3.saves
                                          ELSE a3.saves + 1)
                    /\ IF a3.crashed
                       THEN /\ disk' = a3.disk
                            /\ flow' = flow0
                            /\ UNCHANGED <<flow_version, skip_sync_once>>
                       ELSE IF a3.changed
                       THEN /\ disk' = a3.disk
                            /\ flow' = NoFlow
                            /\ flow_version' = flow_version + 1
                            /\ UNCHANGED skip_sync_once
                       ELSE /\ disk' = [initial_state |-> cfg.initial_state, states |-> a3.states]
                            /\ flow' = IF skip_sync_once THEN flow0 ELSE new_state
                            /\ skip_sync_once' = FALSE
                            /\ UNCHANGED flow_version
    /\ UNCHANGED <<graph, files, dataset>>

\* a run after one interaction of the user on the canvas
RunCanvas == Run("canvas")

\* a run that is handed any small difference to the projection
Reconcile == Run("reconcile")

\* a run in which the user edits nothing: the component returns the flow state it
\* was given
Render == Run("idle")

\* delete_state(state_id, states, details, m_type, flow_state_key) for the selected
\* state
delete_state(initial_state, states) ==
    {LET c == cascade(DelKey(states, state_id), 1, state_id)
     IN [states |-> c.states, initial_state |-> initial_state, crashed |-> c.crashed,
         deleted |-> {state_id}, rejected |-> FALSE, input |-> state_id] :
        state_id \in KeySet(states)}

\* the names typed into "State Name" and the templates chosen
CreateNames == {SEARCH, STATE_B}
Templates == {"Empty State", "Conclusion State"}

\* a name with a character that is no letter, digit or underscore
A_DASH_B == <<"a", "-", "b">>

\* everything typed into "State Name": the names above, nothing, and A_DASH_B
TypedNames == CreateNames \cup {EmptyStr, A_DASH_B}

\* str.isalnum() on the characters of the model: not empty, letters and digits only
AlnumChars ==
    {"a", "b", "c", "d", "e", "f", "g", "h", "i", "j", "k", "l", "m", "n", "o", "p", "q",
     "r", "s", "t", "u", "v", "w", "x", "y", "z"} \cup Range(Digits)
IsAlnum(s) == s # << >> /\ \A k \in 1..Len(s) : s[k] \in AlnumChars

\* the three tests of the button "Create": not ns, ns in states,
\* not ns.replace("_", "").isalnum()
NameRefused(ns, states) ==
    \/ ns = EmptyStr
    \/ Has(states, ns)
    \/ ~IsAlnum(SelectSeq(ns, LAMBDA c : c # "_"))

\* what the button does for a refused name: st.error, and nothing else
Refused(ns, initial_state, states) ==
    [states |-> states, initial_state |-> initial_state, crashed |-> FALSE, deleted |-> {},
     rejected |-> TRUE, input |-> ns]

\* the value stored for the new state ns
CreatedData(ns, template) ==
    IF template = "Conclusion State"
    THEN [NewStateData(ns) EXCEPT !.conds = <<Transition(TRUE_COND, END)>>]
    ELSE NewStateData(ns)

\* (mutant) create_state without the test `ns in states`
create_state_overwriting(initial_state, states) ==
    {IF ns = EmptyStr \/ ~IsAlnum(SelectSeq(ns, LAMBDA c : c # "_"))
     THEN Refused(ns, initial_state, states)
     ELSE [states |-> IF Has(states, ns) THEN Put(states, CreatedData(ns, template))
                      ELSE Append(states, CreatedData(ns, template)),
           initial_state |-> IF states = << >> THEN ns ELSE initial_state,
           crashed |-> FALSE, deleted |-> {}, rejected |-> FALSE, input |-> ns] :
        ns \in TypedNames, template \in Templates}

\* (mutant) create_state without the assignment of initial_state
create_state_keep_initial(initial_state, states) ==
    {IF NameRefused(ns, states)
     THEN Refused(ns, initial_state, states)
     ELSE [states |-> Append(states, CreatedData(ns, template)),
           initial_state |-> initial_state,
           crashed |-> FALSE, deleted |-> {}, rejected |-> FALSE, input |-> ns] :
        ns \in TypedNames, template \in Templates}

\* the button "Create" of render_create_state_panel: a refused name changes nothing;
\* otherwise the first state becomes initial_state, the new value is stored under
\* the name and the file is saved
create_state(initial_state, states) ==
    {IF NameRefused(ns, states)
     THEN Refused(ns, initial_state, states)
     ELSE [states |-> Append(states, CreatedData(ns, template)),
           initial_state |-> IF states = << >> THEN ns ELSE initial_state,
           crashed |-> FALSE, deleted |-> {}, rejected |-> FALSE, input |-> ns] :
        ns \in TypedNames, template \in Templates}

\* the button "Add Transition" of render_add_transition for a selected state, a
\* target of the select box and a condition of the templates
add_transition(initial_state, states) ==
    UNION {{[states |-> Put(states, [EnsureTrans(Get(states, state_id)) EXCEPT
                                        !.conds = Append(@, Transition(condition, target))]),
             initial_state |-> initial_state, crashed |-> FALSE, deleted |-> {},
             rejected |-> FALSE, input |-> state_id] :
               target \in (KeySet(states) \cup {END, ERROR}) \ {state_id},
               condition \in {TRUE_COND, ELSE_COND}} :
           state_id \in {id \in KeySet(states) : Len(CondsOf(Get(states, id))) < MaxTrans}}

\* what the handler of the pressed button may do
Handler(op, initial_state, states) ==
    IF op = "delete_state" THEN delete_state(initial_state, states)
    ELSE IF op = "create_state" THEN create_state(initial_state, states)
    ELSE add_transition(initial_state, states)

\* One run in which a button of the sidebar is pressed: the component returns the
\* flow state as it is, the passes run and change nothing (a run they change ends
\* in st.rerun before the sidebar), and the button's handler runs: it saves,
\* resets the flow state and reruns, or an exception ends it before it saves, or
\* (a refused name) it does nothing and the run goes on to its end as a run without
\* a button does. The record of the run has the handler's input beside it.
SidebarRun(op) ==
    /\ last = NoRun
    /\ CanReset
    /\ LET cfg == Normalise(disk)
           ro == SortedStrs(Referenced(cfg.states))
           g == build_graph_elements(cfg.states, cfg.initial_state, ro)
           flow0 == IF flow.set THEN flow
                    ELSE [set |-> TRUE, nodes |-> Range(g.nodes), edges |-> g.edges]
           ps == Passes(flow0, g, cfg.initial_state, disk, skip_sync_once)
       IN /\ ~ps.a3.changed
          /\ ~ps.a3.crashed
          /\ \E r \in Handler(op, cfg.initial_state, ps.a3.states) :
                /\ last' = RunRecord(op, cfg, g, flow0, ps, r.states, r.deleted, r.crashed,
                                     IF r.crashed THEN 0 ELSE 1)
                              @@ [input |-> r.input]
                /\ IF r.crashed
                   THEN /\ flow' = flow0
                        /\ skip_sync_once' = FALSE
                        /\ UNCHANGED <<disk, flow_version>>
                   ELSE IF r.rejected
                   THEN /\ disk' = [initial_state |-> cfg.initial_state, states |-> ps.a3.states]
                        /\ flow' = flow0
                        /\ skip_sync_once' = FALSE
                        /\ UNCHANGED flow_version
                   ELSE /\ disk' = [initial_state |-> r.initial_state, states |-> r.states]
                        /\ flow' = NoFlow
                        /\ flow_version' = flow_version + 1
                        /\ skip_sync_once' = (op = "create_state")
    /\ UNCHANGED <<graph, files, dataset>>

\* the button "Delete State" of render_state_editor
DeleteState == SidebarRun("delete_state")

\* the button "Create" of render_create_state_panel
CreateState == SidebarRun("create_state")

\* the button "Add Transition" of render_add_transition
AddTransition == SidebarRun("add_transition")

\* the script run is over and the page waits for the next interaction
NextInteraction ==
    /\ last # NoRun
    /\ last' = NoRun
    /\ UNCHANGED <<disk, flow, flow_version, skip_sync_once, graph, files, dataset>>

Next ==
    \/ RunCanvas
    \/ DeleteState
    \/ NextInteraction

Spec == Init /\ [][Next]_vars

\* ------------------------------------------------ reconciliation on its own
InitPass ==
    /\ \E m \in EditorMachines : disk = [initial_state |-> STATE_A, states |-> m]
    /\ flow = NoFlow
    /\ flow_version = 0
    /\ skip_sync_once = FALSE
    /\ last = NoRun
    /\ graph = NoGraph
    /\ files = NoFiles
    /\ dataset = NoDataset

NextPass ==
    \/ Reconcile
    \/ DeleteState

SpecPass == InitPass /\ [][NextPass]_vars

\* ------------------------------------------- the sidebar on an empty file
InitSide ==
    /\ disk = [initial_state |-> EmptyStr, states |-> << >>]
    /\ flow = NoFlow
    /\ flow_version = 0
    /\ skip_sync_once = FALSE
    /\ last = NoRun
    /\ graph = NoGraph
    /\ files = NoFiles
    /\ dataset = NoDataset

NextSide ==
    \/ CreateState
    \/ AddTransition
    \/ DeleteState
    \/ NextInteraction

SpecSide == InitSide /\ [][NextSide]_vars

\* ------------------------------------------------------------ the files
\* A file's data is [nested, description, prompt, ui]: nested says whether the top
\* level has the keys description/default_state (otherwise the whole object is the
\* default_state), prompt stands for the strings of the states, ui is the key
\* ui_metadata: [has, positions].
NoUi == [has |-> FALSE]
WithUi(P) == [has |-> TRUE, positions |-> P]

\* name.replace('_', ' ').title(), the description given to a flat file
TITLE == <<"N", "a", "m", "e">>
DESCRIPTION == <<"d">>

\* line.rstrip()
RECURSIVE RStrip(_)
RStrip(line) ==
    IF line # << >> /\ line[Len(line)] = " " THEN RStrip(SubSeq(line, 1, Len(line) - 1))
    ELSE line

\* str_representer followed by yaml.safe_load: the string a YAML file gives back
\* for data; a string with a line break has every line stripped at its right end
str_representer(data) ==
    IF \E i \in 1..Len(data) : data[i] = "\n"
    THEN LET lines == Split(data, "\n")
         IN Join([k \in 1..Len(lines) |-> RStrip(lines[k])], <<"\n">>)
    ELSE data

\* save_mission_type(name, config, prefer_yaml): the files of the name afterwards
save_mission_type(fs, config, prefer_yaml) ==
    LET config_to_save == [config EXCEPT !.ui = NoUi]
    IN IF fs.yaml.exists \/ prefer_yaml
       THEN [fs EXCEPT !.yaml = [exists |-> TRUE,
                                  data |-> [config_to_save EXCEPT
                                               !.prompt = str_representer(@),
                                               !.description = str_representer(@)]],
                       !.json = NoFile]
       ELSE [fs EXCEPT !.json = [exists |-> TRUE, data |-> config_to_save]]

\* the file load_mission_types reads for the name: a .yaml or .yml file replaces
\* one found before it in the order *.json, *.yaml, *.yml
FoundFile(fs) ==
    IF fs.yml.exists THEN fs.yml ELSE IF fs.yaml.exists THEN fs.yaml ELSE fs.json

\* mission_types[name] of load_mission_types, some file of the name existing
load_mission_type(fs) ==
    LET data == FoundFile(fs).data
    IN IF data.nested THEN data
       ELSE [nested |-> TRUE, description |-> TITLE, prompt |-> data.prompt, ui |-> NoUi]

AnyFile(fs) == fs.json.exists \/ fs.yaml.exists \/ fs.yml.exists

\* the prompts: one line, one line with a space at its end, two lines, two lines
\* with spaces at the end of the first
Prompts ==
    {<<"x">>, <<"x", " ">>, <<"x", "\n", "y">>, <<"x", " ", "\n", "y">>}

StoredPositions == [{STATE_A} -> {<<100, 80>>}]

\* what a hand-written file may hold, and what the editors hand to save_mission_type
FlatData == {[nested |-> FALSE, description |-> EmptyStr, prompt |-> p, ui |-> NoUi] :
                p \in Prompts}
Configs == {[nested |-> TRUE, description |-> DESCRIPTION, prompt |-> p, ui |-> u] :
                p \in Prompts, u \in {NoUi} \cup {WithUi(P) : P \in StoredPositions}}

\* DEFAULT_MISSION_TYPES[name]
DefaultConfig ==
    [nested |-> TRUE, description |-> DESCRIPTION, prompt |-> <<"x", "\n">>, ui |-> NoUi]

InitStore ==
    /\ \E slot \in {"none", "json", "yaml", "yml"} : \E data \in FlatData \cup Configs :
          files = IF slot = "none" THEN NoFiles
                  ELSE [NoFiles EXCEPT ![slot] = [exists |-> TRUE, data |-> data]]
    /\ disk = [initial_state |-> EmptyStr, states |-> << >>]
    /\ flow = NoFlow
    /\ flow_version = 0
    /\ skip_sync_once = FALSE
    /\ last = NoRun
    /\ graph = NoGraph
    /\ dataset = NoDataset

\* One save of the name. The visual editor and the home view pass prefer_yaml=True,
\* the text editor (save_mission_types) and the loader (no file in the directory)
\* do not; the editors save a name that has a file, the home view and the loader one
\* that has none.
Save ==
    /\ last = NoRun
    /\ \E issuer \in {"visual", "home", "text", "loader"} : \E config \in Configs :
          /\ issuer \in {"visual", "text"} => AnyFile(files)
          /\ issuer = "home" => ~AnyFile(files)
          /\ issuer = "loader" => ~AnyFile(files) /\ config = DefaultConfig
          /\ files' = save_mission_type(files, config, issuer \in {"visual", "home"})
          /\ last' = [op |-> "save", issuer |-> issuer, config |-> config, files0 |-> files]
    /\ UNCHANGED <<disk, flow, flow_version, skip_sync_once, graph, dataset>>

\* The loaded value is saved back: by save_mission_types of the text editor for
\* every name it did not edit, and by a render of the visual editor.
LoadAndSave ==
    /\ last = NoRun
    /\ AnyFile(files)
    /\ \E issuer \in {"visual", "text"} :
          /\ files' = save_mission_type(files, load_mission_type(files), issuer = "visual")
          /\ last' = [op |-> "load_and_save", issuer |-> issuer,
                      config |-> load_mission_type(files), files0 |-> files]
    /\ UNCHANGED <<disk, flow, flow_version, skip_sync_once, graph, dataset>>

NextStore ==
    \/ Save
    \/ LoadAndSave
    \/ NextInteraction

SpecStore == InitStore /\ [][NextStore]_vars

\* ------------------------------------------------- normalisation on its own
\* What load_mission_types may hand to the editor for a hand-written file:
\* default_state is absent or falsy ("missing"), a truthy string, a non-empty list or
\* a dict; in a dict, states is absent, a list or a dict, and initial_state is absent,
\* a string or a non-empty list.
MissingInitial == [kind |-> "missing", value |-> EmptyStr]
StrInitial(v) == [kind |-> "str", value |-> v]
ListInitial == [kind |-> "list", value |-> EmptyStr]

RawDetails ==
    {[default_state |-> k, states |-> [kind |-> "missing", entries |-> << >>],
      initial_state |-> MissingInitial] : k \in {"missing", "str", "list"}}
    \cup {[default_state |-> "dict", states |-> st, initial_state |-> i] :
            st \in {[kind |-> k, entries |-> << >>] : k \in {"missing", "list"}}
                   \cup {[kind |-> "dict", entries |-> m] : m \in EditorMachines},
            i \in {MissingInitial, ListInitial}
                  \cup {StrInitial(v) : v \in {EmptyStr, STATE_A, STATE_B, SEARCH}}}

\* lines 99-116 of render_visual_state_editor on raw: default_state that is no dict
\* becomes {"initial_state": old_val} or {}, states that is no dict becomes {}, and
\* the test `config["initial_state"] not in states` raises TypeError for a truthy
\* initial_state that cannot be hashed
NormaliseLoaded(raw) ==
    LET config == IF raw.default_state = "dict" THEN raw
                  ELSE [raw EXCEPT !.initial_state =
                                       IF raw.default_state = "str" THEN StrInitial(<<"x">>)
                                       ELSE IF raw.default_state = "list" THEN ListInitial
                                       ELSE MissingInitial,
                                   !.states = [kind |-> "missing", entries |-> << >>]]
        states == IF config.states.kind = "dict" THEN config.states.entries ELSE << >>
        cfg == Normalise([initial_state |-> config.initial_state.value, states |-> states])
    IN IF config.initial_state.kind = "list"
       THEN [crashed |-> TRUE, initial_state |-> EmptyStr, states |-> states]
       ELSE [crashed |-> FALSE, initial_state |-> cfg.initial_state, states |-> cfg.states]

InitNorm ==
    /\ disk \in RawDetails
    /\ flow = NoFlow
    /\ flow_version = 0
    /\ skip_sync_once = FALSE
    /\ last = NoRun
    /\ graph = NoGraph
    /\ files = NoFiles
    /\ dataset = NoDataset

\* the start of a render, up to line 116
NormaliseRun ==
    /\ last = NoRun
    /\ last' = [op |-> "normalise", raw |-> disk, result |-> NormaliseLoaded(disk)]
    /\ UNCHANGED <<disk, flow, flow_version, skip_sync_once, graph, files, dataset>>

NextNorm == NormaliseRun

SpecNorm == InitNorm /\ [][NextNorm]_vars

\* ------------------------------------------------ properties of projection
\* the ids some ordinary or error transition of a defined state names
TargetedIds(states) ==
    {t \in Targets :
        \E i \in 1..Len(states) :
            /\ states[i].shape = "dict"
            /\ \/ \E j \in 1..Len(states[i].conds) : states[i].conds[j].next_state = t
               \/ states[i].err = <<t>>}

\* C8: the node ids of a projection are the defined state ids and the targeted ids
\* that are not defined; no id is on two nodes; the nodes of defined states are
\* deletable and the placeholders are not.
C8_NodeSet ==
    graph.built =>
        /\ NodeIds(graph.nodes) =
              KeySet(graph.input) \cup (TargetedIds(graph.input) \ KeySet(graph.input))
        /\ \A k1, k2 \in 1..Len(graph.nodes) :
              graph.nodes[k1].id = graph.nodes[k2].id => k1 = k2
        /\ \A k \in 1..Len(graph.nodes) :
              graph.nodes[k].deletable <=> graph.nodes[k].id \in KeySet(graph.input)

\* two states both target the undefined "end" by ordinary transitions and the
\* projection is built
C8_Witness ==
    /\ graph.built
    /\ Len(graph.input) = 2
    /\ END \notin KeySet(graph.input)
    /\ \A i \in 1..2 : \E j \in 1..Len(CondsOf(graph.input[i])) :
          CondsOf(graph.input[i])[j].next_state = END
    /\ Cardinality({k \in 1..Len(graph.nodes) : graph.nodes[k].id = END}) = 1
    /\ \E k \in 1..Len(graph.nodes) : graph.nodes[k].id = END /\ ~graph.nodes[k].deletable

\* int(digits)
RECURSIVE ParseInt(_)
ParseInt(d) ==
    IF d = << >> THEN 0
    ELSE 10 * ParseInt(SubSeq(d, 1, Len(d) - 1))
         + ((CHOOSE i \in 1..10 : Digits[i] = d[Len(d)]) - 1)

\* the numbers of S in ascending order
RECURSIVE Ascending(_)
Ascending(S) ==
    IF S = {} THEN << >>
    ELSE LET m == CHOOSE x \in S : \A y \in S : x <= y
         IN <<m>> \o Ascending(S \ {m})

\* the index list an edge id decodes to
DecodedIndices(id) ==
    LET parts == Split(id, "|")
        nums == Split(parts[3], ",")
    IN [k \in 1..Len(nums) |-> ParseInt(nums[k])]

\* C9: for every defined state A and every target B of an ordinary transition of A
\* the projection has exactly one ordinary edge A -> B, and its id is A|B|<list>,
\* the list being the ascending positions in A's transition list of the transitions
\* to B.
C9_Grouping ==
    graph.built =>
        \A i \in 1..Len(graph.input) :
            LET A == graph.input[i]
            IN \A B \in {CondsOf(A)[j].next_state : j \in 1..Len(CondsOf(A))} :
                 LET es == {k \in 1..Len(graph.edges) :
                               /\ ~graph.edges[k].error
                               /\ graph.edges[k].source = A.id
                               /\ graph.edges[k].target = B}
                     pos == {j - 1 : j \in {n \in 1..Len(A.conds) : A.conds[n].next_state = B}}
                 IN /\ Cardinality(es) = 1
                    /\ \A k \in es :
                         LET parts == Split(graph.edges[k].id, "|")
                         IN /\ Len(parts) = 3
                            /\ parts[1] = A.id
                            /\ parts[2] = B
                            /\ DecodedIndices(graph.edges[k].id) = Ascending(pos)

\* a has three transitions, all to b, and the single edge is a|b|0,1,2
C9_Witness ==
    /\ graph.built
    /\ \E i \in 1..Len(graph.input) :
          /\ graph.input[i].id = STATE_A
          /\ Len(CondsOf(graph.input[i])) = 3
          /\ \A j \in 1..3 : graph.input[i].conds[j].next_state = STATE_B
    /\ \E k \in 1..Len(graph.edges) :
          graph.edges[k].id = <<"a", "|", "b", "|", "0", ",", "1", ",", "2">>
    /\ Cardinality({k \in 1..Len(graph.edges) : graph.edges[k].source = STATE_A}) = 1

\* the state machine without its error transitions
WithoutErrors(states) ==
    [i \in 1..Len(states) |-> [states[i] EXCEPT !.err = << >>]]

OrdinaryEdges(edges) == SelectSeq(edges, LAMBDA e : ~e.error)

\* C10: a state's error transition has an edge of its own, whose id is the id of no
\* ordinary edge; the ordinary edges (ids, index lists, labels) are those of the
\* same state machine without error transitions; the edge ids of a projection are
\* pairwise distinct.
C10_ErrorEdgeSeparate ==
    graph.built =>
        /\ \A i \in 1..Len(graph.input) :
              ErrTargetOf(graph.input[i]) # EmptyStr =>
                 \E k \in 1..Len(graph.edges) :
                    /\ graph.edges[k].error
                    /\ graph.edges[k].source = graph.input[i].id
                    /\ graph.edges[k].target = ErrTargetOf(graph.input[i])
                    /\ \A n \in 1..Len(graph.edges) :
                          ~graph.edges[n].error => graph.edges[n].id # graph.edges[k].id
        /\ \A ro \in Perms(Referenced(WithoutErrors(graph.input))) :
              OrdinaryEdges(graph.edges) =
                 build_graph_elements(WithoutErrors(graph.input), STATE_A, ro).edges
        /\ \A k1, k2 \in 1..Len(graph.edges) :
              graph.edges[k1].id = graph.edges[k2].id => k1 = k2

\* a has an error transition to b and an ordinary transition to b: two edges a -> b
C10_Witness ==
    /\ graph.built
    /\ \E i \in 1..Len(graph.input) :
          /\ graph.input[i].id = STATE_A
          /\ ErrTargetOf(graph.input[i]) = STATE_B
          /\ \E j \in 1..Len(CondsOf(graph.input[i])) : graph.input[i].conds[j].next_state = STATE_B
    /\ Cardinality({k \in 1..Len(graph.edges) :
                       graph.edges[k].source = STATE_A /\ graph.edges[k].target = STATE_B}) = 2


\* --------------------------------------------- properties of reconciliation
IsRun == last # NoRun
IsReconcile == last # NoRun /\ last.op = "reconcile" /\ last.synced

\* the ids of `after` that the projection does not have, and the ids it lacks
NewEdgesOf(r) == SelectSeq(r.after.edges, LAMBDA e : e.id \notin EdgeIds(r.before.edges))
CutEdgesOf(r) == SelectSeq(r.before.edges, LAMBDA e : e.id \notin EdgeIds(r.after.edges))
GoneNodesOf(r) == {n.id : n \in r.before.nodes} \ FlowNodeIds(r.after)

\* the transition list and the error transition of key id in states
CondsIn(states, id) == CondsOf(Get(states, id))
ErrIn(states, id) == ErrTargetOf(Get(states, id))

\* C1: with the node ids and edge ids of the after-graph those of the projection,
\* the three passes change no state, no transition, no error transition, never
\* save, and none reports a change.
C1_Idempotent ==
    (/\ IsReconcile
     /\ FlowNodeIds(last.after) = {n.id : n \in last.before.nodes}
     /\ EdgeIds(last.after.edges) = EdgeIds(last.before.edges))
    => /\ last.a3.states = last.a0.states
       /\ last.a1.states = last.a0.states
       /\ last.a2.states = last.a0.states
       /\ ~last.a1.changed /\ ~last.a2.changed /\ ~last.a3.changed
       /\ last.a3.saves = 0
       /\ last.a3.disk = last.disk0
       /\ ~last.crashed

\* the passes ran on the projection of a machine with an ordinary and an error edge
C1_Witness ==
    /\ IsReconcile
    /\ last.after.edges = last.before.edges
    /\ last.after.nodes = last.before.nodes
    /\ \E k \in 1..Len(last.before.edges) : last.before.edges[k].error
    /\ \E k \in 1..Len(last.before.edges) : ~last.before.edges[k].error
    /\ Len(last.a3.states) = 2
    /\ ~last.a3.changed

\* no key S and no transition or error transition to S
NoTrace(states, S) ==
    /\ ~Has(states, S)
    /\ \A i \in 1..Len(states) :
          /\ S \notin TargetsOf(CondsOf(states[i]))
          /\ ErrTargetOf(states[i]) # S

\* C2 (as claimed): after delete_state or the deleted-nodes pass deleted state S,
\* S is no key of states and no remaining state has a transition or an error
\* transition to S, in the states dict of the run and in the file.
C2_CascadeComplete ==
    IsRun => \A S \in last.deleted : NoTrace(last.final, S) /\ NoTrace(disk.states, S)

\* C3: the new-edges pass appends, for each defined source A and each target B of a
\* new edge of A that no transition of A names, exactly one {True, B} after A's
\* transitions, changes nothing else, and changes nothing when applied again.
C3_NewEdgeMinimal ==
    IsReconcile =>
        LET new == NewEdgesOf(last)
            s0 == last.a0.states
            s1 == last.a1.states
            NewTargets(A) == {new[k].target : k \in {n \in 1..Len(new) : new[n].source = A}}
                                \ TargetsOf(CondsIn(s0, A))
            again == handle_new_edges(last.after.edges, EdgeIds(last.before.edges),
                                      [last.a1 EXCEPT !.changed = FALSE], last.initial_state)
        IN /\ Keys(s1) = Keys(s0)
           /\ \A A \in KeySet(s0) :
                 /\ SubSeq(CondsIn(s1, A), 1, Len(CondsIn(s0, A))) = CondsIn(s0, A)
                 /\ Len(CondsIn(s1, A)) = Len(CondsIn(s0, A)) + Cardinality(NewTargets(A))
                 /\ \A B \in NewTargets(A) :
                       /\ Cardinality({j \in 1..Len(CondsIn(s1, A)) :
                                          CondsIn(s1, A)[j].next_state = B}) = 1
                       /\ Transition(TRUE_COND, B) \in Range(CondsIn(s1, A))
                 /\ ErrIn(s1, A) = ErrIn(s0, A)
           /\ last.a1.changed <=> \E A \in KeySet(s0) : NewTargets(A) # {}
           /\ again.states = s1
           /\ ~again.changed

\* the edge a -> X was drawn twice, no transition of a named X, and a has one more
\* transition, {True, X}, at the end
C3_Witness ==
    /\ IsReconcile
    /\ Len(NewEdgesOf(last)) = 2
    /\ Has(last.a0.states, STATE_A)
    /\ \A k \in 1..2 : NewEdgesOf(last)[k].source = STATE_A
                        /\ NewEdgesOf(last)[k].target = END
    /\ Len(CondsIn(last.a0.states, STATE_A)) = 1
    /\ END \notin TargetsOf(CondsIn(last.a0.states, STATE_A))
    /\ CondsIn(last.a1.states, STATE_A) =
          CondsIn(last.a0.states, STATE_A) \o <<Transition(TRUE_COND, END)>>

\* C4 (as claimed): when one ordinary edge A -> B of the projection is missing and
\* nothing else differs, the deleted-edges pass removes the first transition of A
\* to B and changes nothing else.
C4_OrdinaryEdgeDeleted ==
    (/\ IsReconcile
     /\ Len(CutEdgesOf(last)) = 1
     /\ ~CutEdgesOf(last)[1].error)
    => LET e == CutEdgesOf(last)[1]
           s1 == last.a1.states
           s2 == last.a2.states
       IN /\ Keys(s2) = Keys(s1)
          /\ CondsIn(s2, e.source) = PopFirst(CondsIn(s1, e.source), e.target)
          /\ ErrIn(s2, e.source) = ErrIn(s1, e.source)
          /\ \A id \in KeySet(s1) \ {e.source} :
                CondsIn(s2, id) = CondsIn(s1, id) /\ ErrIn(s2, id) = ErrIn(s1, id)

\* C5: when the error edge of A is missing, the deleted-edges pass deletes A's error
\* transition and changes no ordinary transition.
C5_ErrorEdgeDeleted ==
    (/\ IsReconcile
     /\ Len(CutEdgesOf(last)) = 1
     /\ CutEdgesOf(last)[1].error)
    => LET e == CutEdgesOf(last)[1]
           s1 == last.a1.states
           s2 == last.a2.states
       IN /\ Keys(s2) = Keys(s1)
          /\ ErrIn(s1, e.source) = e.target
          /\ Get(s2, e.source).err = << >>
          /\ last.a2.changed
          /\ \A id \in KeySet(s1) : CondsIn(s2, id) = CondsIn(s1, id)
          /\ \A id \in KeySet(s1) \ {e.source} : ErrIn(s2, id) = ErrIn(s1, id)

\* a has an ordinary transition and an error transition to b, and the error edge
\* was deleted
C5_Witness ==
    /\ IsReconcile
    /\ Len(CutEdgesOf(last)) = 1
    /\ CutEdgesOf(last)[1].error
    /\ CutEdgesOf(last)[1].source = STATE_A
    /\ CutEdgesOf(last)[1].target = STATE_B
    /\ STATE_B \in TargetsOf(CondsIn(last.a0.states, STATE_A))
    /\ STATE_B \in TargetsOf(CondsIn(last.a2.states, STATE_A))
    /\ Get(last.a2.states, STATE_A).err = << >>

\* the number of transitions of key id to tgt
CountTo(states, id, tgt) ==
    Cardinality({j \in 1..Len(CondsIn(states, id)) : CondsIn(states, id)[j].next_state = tgt})

\* every change the difference between after and before asks for is in states
DiffApplied(r, states) ==
    LET new == NewEdgesOf(r)
        cut == CutEdgesOf(r)
        gone == GoneNodesOf(r) \cap KeySet(r.a0.states)
    IN /\ \A S \in gone : ~Has(states, S)
       /\ \A k \in 1..Len(new) :
             (Has(r.a0.states, new[k].source) /\ new[k].source \notin gone
                 /\ new[k].target \notin gone
                 /\ \A n \in 1..Len(cut) : cut[n].source # new[k].source
                                             \/ cut[n].target # new[k].target)
             => new[k].target \in TargetsOf(CondsIn(states, new[k].source))
       /\ \A k \in 1..Len(cut) :
             (Has(r.a0.states, cut[k].source) /\ cut[k].source \notin gone)
             => IF cut[k].error
                THEN Get(states, cut[k].source).err = << >>
                ELSE (cut[k].target \notin gone
                        /\ ~Contains(cut[k].id, ERROR)
                        /\ \A n \in 1..Len(new) : new[n].source # cut[k].source
                                                    \/ new[n].target # cut[k].target)
                     => CountTo(states, cut[k].source, cut[k].target)
                           = CountTo(r.a0.states, cut[k].source, cut[k].target) - 1

\* C6 (as claimed): after the passes of a run the file is as it was before the run,
\* or it holds every change of the difference.
C6_AllOrNothing ==
    IsReconcile => \/ last.a3.disk = last.disk0
                   \/ DiffApplied(last, last.a3.disk.states)

\* C7 (as claimed): a file written by save_mission_type with a non-empty states has
\* an initial_state that is a key of states.
C7_PersistedInitialValid ==
    (IsRun /\ last.saves > 0) => (disk.states # << >> => Has(disk.states, disk.initial_state))

\* C11 (as claimed): when every new edge of the after-graph has a target that is
\* no key of states, the new-edges pass leaves states as they were and saves nothing.
C11_PlaceholderTargetRejected ==
    (/\ IsReconcile
     /\ NewEdgesOf(last) # << >>
     /\ \A k \in 1..Len(NewEdgesOf(last)) :
           ~Has(last.a0.states, NewEdgesOf(last)[k].target))
    => /\ last.a1.states = last.a0.states
       /\ last.a1.saves = 0

\* C12: a new edge whose source is no key of states adds no transition and no
\* state, and a node that is no key of states and is missing from the after-graph
\* removes no state and no transition.
C12_PlaceholderInert ==
    IsReconcile =>
        /\ (\A k \in 1..Len(NewEdgesOf(last)) :
                ~Has(last.a0.states, NewEdgesOf(last)[k].source))
            => /\ last.a1.states = last.a0.states
               /\ last.a1.saves = 0
               /\ ~last.a1.changed
        /\ (GoneNodesOf(last) \cap KeySet(last.a2.states) = {})
            => /\ last.a3.states = last.a2.states
               /\ last.a3.saves = last.a2.saves
               /\ last.a3.changed = last.a2.changed
               /\ ~last.a3.crashed

\* a placeholder that a state targets is missing from the after-graph, an edge was
\* drawn from a placeholder, and the passes left the states as they were
C12_Witness ==
    /\ IsReconcile
    /\ GoneNodesOf(last) # {}
    /\ GoneNodesOf(last) \cap KeySet(last.a0.states) = {}
    /\ GoneNodesOf(last) \subseteq TargetedIds(last.a0.states)
    /\ NewEdgesOf(last) # << >>
    /\ \A k \in 1..Len(NewEdgesOf(last)) : ~Has(last.a0.states, NewEdgesOf(last)[k].source)
    /\ last.a3.states = last.a0.states
    /\ last.a3.saves = 0

\* what the next render builds for the file d
Projection(d) ==
    build_graph_elements(Normalise(d).states, Normalise(d).initial_state,
                         SortedStrs(Referenced(Normalise(d).states)))

\* the files of the scenario: one empty state "search", and "search" with the
\* transition {True, end}
SearchOnly == [initial_state |-> SEARCH, states |-> <<NewStateData(SEARCH)>>]
SearchToEnd ==
    [initial_state |-> SEARCH,
     states |-> <<[NewStateData(SEARCH) EXCEPT !.conds = <<Transition(TRUE_COND, END)>>]>>]

\* the steps of the scenario without the role of "search"
ScenarioSteps ==
    /\ (IsRun /\ last.op = "create_state" /\ last.disk0.states = << >>
            /\ disk.states = <<NewStateData(SEARCH)>>)
        => disk = SearchOnly
    /\ (IsRun /\ last.op = "add_transition" /\ last.disk0 = SearchOnly
            /\ disk.states = SearchToEnd.states)
        => /\ disk = SearchToEnd
           /\ Len(Projection(disk).nodes) = 2
           /\ Len(Projection(disk).edges) = 1
           /\ \E k \in 1..2 : /\ Projection(disk).nodes[k].id = SEARCH
                               /\ Projection(disk).nodes[k].initial
                               /\ Projection(disk).nodes[k].deletable
           /\ \E k \in 1..2 : /\ Projection(disk).nodes[k].id = END
                               /\ ~Projection(disk).nodes[k].deletable
    /\ (IsRun /\ last.op = "delete_state" /\ last.disk0 = SearchToEnd /\ ~last.crashed)
        => /\ Projection(disk).nodes = << >>
           /\ Projection(disk).edges = << >>

\* C13 (as claimed): from no states, creating "search" makes it initial; adding
\* search -> end with condition True gives a projection of two nodes, "search"
\* initial with role normal and the placeholder "end" not deletable, and one edge;
\* deleting "search" gives a projection with no node and no edge.
C13_Scenario ==
    /\ ScenarioSteps
    /\ (IsRun /\ last.op = "add_transition" /\ last.disk0 = SearchOnly
            /\ disk.states = SearchToEnd.states)
        => \A k \in 1..Len(Projection(disk).nodes) :
              Projection(disk).nodes[k].id = SEARCH
              => Projection(disk).nodes[k].type = "normal"

\* C13 (amended): the scenario as claimed, with "search" of role end (all its
\* transitions target "end") and marked initial.
C13_ScenarioAmended ==
    /\ ScenarioSteps
    /\ (IsRun /\ last.op = "add_transition" /\ last.disk0 = SearchOnly
            /\ disk.states = SearchToEnd.states)
        => \A k \in 1..Len(Projection(disk).nodes) :
              Projection(disk).nodes[k].id = SEARCH
              => Projection(disk).nodes[k].type = "end" /\ Projection(disk).nodes[k].initial

\* the three steps of the scenario were taken, the last one deleting "search"
C13_Witness ==
    IsRun /\ last.op = "delete_state" /\ last.disk0 = SearchToEnd /\ disk.states = << >>

\* stored positions: of no node, of some, of all
PositionMaps ==
    UNION {[S -> {<<0, 0>>, <<400, 80>>}] : S \in SUBSET {STATE_A, END}}

\* C14: whatever the stored positions and the order in which `referenced` is
\* iterated, the projection of the same states and initial_state has the same set
\* of node ids and the same set of edge ids.
C14_ProjectionDeterministic ==
    graph.built =>
        \A ro \in Perms(Referenced(disk.states)) :
            LET g2 == build_graph_elements(disk.states, disk.initial_state, ro)
            IN /\ \A P \in PositionMaps :
                     NodeIds(Positioned(g2.nodes, P)) = NodeIds(graph.nodes)
               /\ EdgeIds(g2.edges) = EdgeIds(graph.edges)

\* a projection with two placeholders, which `referenced` yields in either order,
\* and a defined state
C14_Witness ==
    /\ graph.built
    /\ Cardinality(Referenced(disk.states) \ KeySet(disk.states)) = 2
    /\ Len(graph.nodes) = 3
    /\ graph.edges # << >>

\* ------------------------------------------------ properties of the files
IsSave == last # NoRun /\ last.op \in {"save", "load_and_save"}

\* the encodings the name is stored in
Encodings(fs) ==
    (IF fs.json.exists THEN {"json"} ELSE {})
    \cup (IF fs.yaml.exists \/ fs.yml.exists THEN {"yaml"} ELSE {})

\* C15 (as claimed): a save keeps the encoding the name was stored in, and writes
\* YAML for a name without a file.
C15_EncodingKept ==
    IsSave => Encodings(files) = IF AnyFile(last.files0) THEN Encodings(last.files0)
                                 ELSE {"yaml"}

\* C16 (as claimed): after the visual editor saved a config with
\* ui_metadata.positions = P, the load of the name has ui_metadata.positions = P.
C16_PositionsStored ==
    (IsSave /\ last.issuer = "visual" /\ last.config.ui.has)
    => load_mission_type(files).ui = last.config.ui

\* what the claim compares of two loaded values
SameSpec(c1, c2) == c1.description = c2.description /\ c1.prompt = c2.prompt

\* C17 (as claimed): the value loaded after the loaded value was saved back equals
\* the value loaded first, in description and in every character of the prompts.
C17_RoundTrip ==
    (IsSave /\ last.op = "load_and_save")
    => SameSpec(load_mission_type(files), last.config)

\* ------------------------------------------------- properties of a render
\* the step is a script run in which the three passes ran
PassesRan == last = NoRun /\ last' # NoRun /\ last'.op = "reconcile" /\ last'.synced

\* C18 without the runs an exception ends
ResetOnceUnlessRaised ==
    [][(PassesRan /\ ~last'.crashed) =>
         IF last'.a3.saves > 0
         THEN flow' = NoFlow /\ flow_version' = flow_version + 1
         ELSE last'.a3.states = last'.a0.states
              => flow'.set /\ flow_version' = flow_version]_vars

\* C18 (as claimed): a run in which a pass mutated (and saved) the spec resets the
\* flow state and adds exactly one to the version counter; a run in which no pass
\* mutated leaves the flow state set and the counter as it was.
C18_ResetOnce ==
    [][PassesRan =>
         /\ last'.a3.saves > 0 => flow' = NoFlow /\ flow_version' = flow_version + 1
         /\ (last'.a3.saves = 0 /\ last'.a3.states = last'.a0.states)
            => flow'.set /\ flow_version' = flow_version]_vars

\* --------------------------------------------- properties of normalisation
IsNormalised == last # NoRun /\ last.op = "normalise"

\* the repairs of the claim, for the runs no exception ends
Repaired ==
    (IsNormalised /\ ~last.result.crashed) =>
        LET raw == last.raw
            res == last.result
            given == IF raw.default_state = "dict" /\ raw.states.kind = "dict"
                     THEN raw.states.entries ELSE << >>
        IN /\ res.states = given
           /\ (given # << >> /\ raw.initial_state.value \notin KeySet(given))
              => Has(given, res.initial_state)
           /\ (given = << >> /\ raw.initial_state.kind = "missing"
                 /\ raw.default_state \in {"dict", "missing"})
              => res.initial_state = EmptyStr
           /\ (raw.default_state = "dict" /\ Has(given, raw.initial_state.value))
              => res.initial_state = raw.initial_state.value

\* C19 (as claimed): normalisation never fails: states that is missing or no mapping
\* becomes empty; with states non-empty an initial_state that is missing, empty or
\* no key becomes a key; with states empty a missing initial_state stays empty; an
\* initial_state that is a key is not changed.
C19_NormaliseRepairs ==
    /\ IsNormalised => ~last.result.crashed
    /\ Repaired

\* ------------------------------------------------------ properties of roles
\* the ids of role Terminal or ErrorRole by the claim's rule, after n rounds: "end"
\* and "error", and every defined state that has transitions all of which target
\* ids of the round before
RECURSIVE TerminalIds(_, _)
TerminalIds(states, n) ==
    IF n = 0 THEN {END, ERROR}
    ELSE LET before == TerminalIds(states, n - 1)
         IN before \cup {states[i].id : i \in {k \in 1..Len(states) :
                             /\ CondsOf(states[k]) # << >>
                             /\ TargetsOf(CondsOf(states[k])) \subseteq before}}

ClaimedRole(states, id) ==
    IF id = END THEN "end"
    ELSE IF id = ERROR THEN "error"
    ELSE IF id \in TerminalIds(states, Len(states)) THEN "end"
    ELSE "normal"

\* C20 (as claimed): the node of a defined state has the role of the claim's rule,
\* and is marked initial exactly when it is the initial state.
C20_RoleClassification ==
    graph.built =>
        \A k \in 1..Len(graph.nodes) :
            graph.nodes[k].deletable =>
                /\ graph.nodes[k].type = ClaimedRole(graph.states, graph.nodes[k].id)
                /\ graph.nodes[k].initial <=> graph.nodes[k].id = disk.initial_state

\* C21 (as claimed): build_graph_elements leaves the states dict it is given as it
\* was: the same keys and the same value for every key, a value None included.
C21_ProjectionPure ==
    graph.built => graph.states = graph.input

\* no positions stored
NoPositions == [id \in {} |-> <<0, 0>>]

\* C22: with no positions stored, the nodes of a projection are the defined states
\* in sorted order of their ids followed by the placeholders, the k-th node
\* (from 0) is at (100 + 300 * (k mod 2), 80 + 200 * (k div 2)), and no two nodes
\* are at the same position.
C22_GridFallback ==
    graph.built =>
        LET placed == Positioned(graph.nodes, NoPositions)
            names == SortedStrs(KeySet(graph.input))
        IN /\ \A k \in 1..Len(names) : placed[k].id = names[k]
           /\ \A k \in (Len(names) + 1)..Len(placed) : ~graph.nodes[k].deletable
           /\ \A k \in 1..Len(placed) :
                 placed[k].pos = <<100 + 300 * ((k - 1) % 2), 80 + 200 * ((k - 1) \div 2)>>
           /\ \A k1, k2 \in 1..Len(placed) : placed[k1].pos = placed[k2].pos => k1 = k2

\* a projection of two defined states and two placeholders, which fills two rows
\* of the grid
C22_Witness ==
    /\ graph.built
    /\ Len(graph.input) = 2
    /\ Len(graph.nodes) = 4
    /\ Positioned(graph.nodes, NoPositions)[4].pos = <<400, 280>>

\* ------------------------------------------------------ export and import
\* a re-export is possible while fewer than MaxExports exports were made
MaxExports == 2

\* the split files export_missions_to_hf_dataset writes
SplitNames == {"sft_train", "rl_train", "validation"}

\* the media of a waypoint: a dict label -> path (its items in insertion order) or
\* a list of paths
DictMedia(items) == [kind |-> "dict", items |-> items]
ListMedia(paths) == [kind |-> "list", items |-> paths]

\* the paths of the project's images; MISSING_IMAGE is the path of no file
FORWARD_IMAGE == "images/forward.png"
MISSING_IMAGE == "images/nonexistent.png"
ExistingImages == {FORWARD_IMAGE}

Medias ==
    {DictMedia(<< >>),
     DictMedia(<<[label |-> "forward", path |-> FORWARD_IMAGE]>>),
     DictMedia(<<[label |-> "forward", path |-> FORWARD_IMAGE],
                 [label |-> "ground", path |-> MISSING_IMAGE]>>),
     ListMedia(<< >>),
     ListMedia(<<FORWARD_IMAGE>>),
     ListMedia(<<MISSING_IMAGE, FORWARD_IMAGE>>)}

\* the k-th waypoint of a mission
Waypoint(k, is_target, media) ==
    [id |-> <<"waypoint", k>>, gt_entities |-> IF k = 1 THEN "color: blue" ELSE "color: red",
     is_target |-> is_target, media |-> media]

WaypointLists ==
    {<<Waypoint(1, t, m)>> : t \in BOOLEAN, m \in Medias}
    \cup {<<Waypoint(1, FALSE, m1), Waypoint(2, TRUE, m2)>> : m1 \in Medias, m2 \in Medias}

\* a mission of the project; a key that is absent is an empty sequence
Missions ==
    {[id |-> "mission_1", type |-> "locate_and_report", dataset_split |-> sp,
      instruction |-> i, mission_instruction |-> mi, waypoints |-> w] :
        sp \in {"sft_train", "validation", "test"},
        i \in {<< >>, <<"Find the red box">>}, mi \in {<< >>, <<"Find the red box">>},
        w \in WaypointLists}

\* mission.get("mission_instruction", mission.get("instruction", ""))
InstructionOf(mission) ==
    IF mission.mission_instruction # << >> THEN mission.mission_instruction[1]
    ELSE IF mission.instruction # << >> THEN mission.instruction[1]
    ELSE ""

\* the waypoint of the HF entry: media as a list, the labels of a dict beside it
HfWaypoint(wp) ==
    [id |-> wp.id, gt_entities |-> wp.gt_entities, is_target |-> wp.is_target,
     media |-> IF wp.media.kind = "dict"
               THEN [j \in 1..Len(wp.media.items) |-> wp.media.items[j].path]
               ELSE wp.media.items,
     labelled |-> wp.media.kind = "dict",
     media_labels |-> IF wp.media.kind = "dict"
                      THEN [j \in 1..Len(wp.media.items) |-> wp.media.items[j].label]
                      ELSE << >>]

\* convert_mission_to_hf_format(mission, project_path)
convert_mission_to_hf_format(mission) ==
    [instruction |-> InstructionOf(mission),
     waypoints |-> [k \in 1..Len(mission.waypoints) |-> HfWaypoint(mission.waypoints[k])],
     id |-> mission.id, type |-> mission.type, dataset_split |-> mission.dataset_split]

\* the waypoint of the internal mission: a dict when media_labels is truthy and as
\* long as media, the list otherwise
InternalWaypoint(wp) ==
    LET media_labels == IF wp.labelled THEN wp.media_labels ELSE << >>
    IN [id |-> wp.id, gt_entities |-> wp.gt_entities, is_target |-> wp.is_target,
        media |-> IF media_labels # << >> /\ Len(media_labels) = Len(wp.media)
                  THEN DictMedia([j \in 1..Len(wp.media) |->
                                    [label |-> media_labels[j], path |-> wp.media[j]]])
                  ELSE ListMedia(wp.media)]

\* convert_hf_format_to_mission(hf_entry)
convert_hf_format_to_mission(hf_entry) ==
    [id |-> hf_entry.id, type |-> hf_entry.type, dataset_split |-> hf_entry.dataset_split,
     waypoints |-> [k \in 1..Len(hf_entry.waypoints) |-> InternalWaypoint(hf_entry.waypoints[k])],
     instruction |-> <<hf_entry.instruction>>, mission_instruction |-> <<hf_entry.instruction>>]

\* the media path the export writes: the copy in images/ when the file exists, the
\* path as it was otherwise
ExportedPath(mission_id, wp_id, media_path) ==
    IF media_path \in ExistingImages
    THEN <<"images", mission_id, wp_id, media_path>>
    ELSE media_path

\* the entry export_missions_to_hf_dataset appends to a split
ExportedEntry(mission) ==
    LET hf_entry == convert_mission_to_hf_format(mission)
    IN [hf_entry EXCEPT !.waypoints =
            [k \in 1..Len(@) |->
                [@[k] EXCEPT !.media = [j \in 1..Len(@) |->
                                           ExportedPath(hf_entry.id, hf_entry.waypoints[k].id, @[j])]]]]

\* the split an entry is appended to
SplitOf(hf_entry) ==
    IF hf_entry.dataset_split \in SplitNames THEN hf_entry.dataset_split ELSE "sft_train"

\* no split file in the dataset's data directory
NoSplitFiles == [s \in SplitNames |-> [exists |-> FALSE, data |-> << >>]]

\* export_missions_to_hf_dataset(missions, project_path, output_dir, dataset_name):
\* the split files of the dataset directory afterwards; dir is the directory before
\* (os.makedirs(..., exist_ok=True)), and only a split with entries is written
export_missions_to_hf_dataset(missions, dir) ==
    LET entries == [k \in 1..Len(missions) |-> ExportedEntry(missions[k])]
    IN [s \in SplitNames |->
          LET split_data == SelectSeq(entries, LAMBDA e : SplitOf(e) = s)
          IN IF split_data # << >> THEN [exists |-> TRUE, data |-> split_data] ELSE dir[s]]

\* the project has one mission; nothing is exported
InitHf ==
    /\ \E m \in Missions :
          dataset = [missions |-> <<m>>, exported |-> FALSE, exports |-> 0,
                     splits |-> NoSplitFiles]
    /\ disk = [initial_state |-> EmptyStr, states |-> << >>]
    /\ flow = NoFlow
    /\ flow_version = 0
    /\ skip_sync_once = FALSE
    /\ last = NoRun
    /\ graph = NoGraph
    /\ files = NoFiles

\* the button Export Dataset of the project overview, to exports/<dataset_name>
Export ==
    /\ dataset.exports < MaxExports
    /\ dataset' = [dataset EXCEPT
                      !.exported = TRUE,
                      !.exports = @ + 1,
                      !.splits = export_missions_to_hf_dataset(dataset.missions, dataset.splits)]
    /\ last' = [op |-> "export", missions |-> dataset.missions, dir0 |-> dataset.splits]
    /\ UNCHANGED <<disk, flow, flow_version, skip_sync_once, graph, files>>

\* the selectbox of the mission editor sets the mission's dataset_split
ChangeSplit ==
    /\ \E k \in 1..Len(dataset.missions) : \E sp \in SplitNames :
          /\ sp # dataset.missions[k].dataset_split
          /\ dataset' = [dataset EXCEPT !.missions[k].dataset_split = sp]
    /\ last' = [op |-> "change_split"]
    /\ last.op \in {"none", "export"}
    /\ UNCHANGED <<disk, flow, flow_version, skip_sync_once, graph, files>>

\* a mission is converted to the HF format and back
Convert ==
    /\ last = NoRun
    /\ \E k \in 1..Len(dataset.missions) :
          LET hf_entry == convert_mission_to_hf_format(dataset.missions[k])
          IN last' = [op |-> "convert", mission |-> dataset.missions[k], hf_entry |-> hf_entry,
                      back |-> convert_hf_format_to_mission(hf_entry)]
    /\ UNCHANGED <<disk, flow, flow_version, skip_sync_once, graph, files, dataset>>

NextHf ==
    \/ Export
    \/ ChangeSplit
    \/ Convert

SpecHf == InitHf /\ [][NextHf]_vars

\* ------------------------------------------- properties of export and import
\* C23 (as claimed): converting a mission to the HF format and back gives every
\* waypoint the media it had: an equal dict for a dict, of any size, and the same
\* list for a list.
C23_MediaRestored ==
    (last # NoRun /\ last.op = "convert") =>
        /\ Len(last.back.waypoints) = Len(last.mission.waypoints)
        /\ \A k \in 1..Len(last.mission.waypoints) :
              last.back.waypoints[k].media = last.mission.waypoints[k].media

\* the same for every media but the empty dict
MediaRestoredUnlessEmptyDict ==
    (last # NoRun /\ last.op = "convert") =>
        /\ Len(last.back.waypoints) = Len(last.mission.waypoints)
        /\ \A k \in 1..Len(last.mission.waypoints) :
              last.mission.waypoints[k].media # DictMedia(<< >>)
              => last.back.waypoints[k].media = last.mission.waypoints[k].media

\* the split files of the dataset directory that hold an entry of the mission's id
SplitFilesOf(mission_id) ==
    {s \in SplitNames :
        /\ dataset.splits[s].exists
        /\ \E j \in 1..Len(dataset.splits[s].data) : dataset.splits[s].data[j].id = mission_id}

\* the mission read back from the entry el of a split file has the mission's
\* instruction, type and dataset_split and its waypoints, in order, with their id,
\* is_target and gt_entities
ReadBack(mission, el) ==
    LET back == convert_hf_format_to_mission(el)
    IN /\ back.instruction = <<InstructionOf(mission)>>
       /\ back.type = mission.type
       /\ back.dataset_split = mission.dataset_split
       /\ Len(back.waypoints) = Len(mission.waypoints)
       /\ \A k \in 1..Len(mission.waypoints) :
             /\ back.waypoints[k].id = mission.waypoints[k].id
             /\ back.waypoints[k].is_target = mission.waypoints[k].is_target
             /\ back.waypoints[k].gt_entities = mission.waypoints[k].gt_entities

\* C24 (as claimed): after an export every exported mission is read back from its
\* split file with its instruction, type, dataset_split and waypoints, and it is in
\* exactly one split file of the dataset.
C24_ExportRoundTrip ==
    (last # NoRun /\ last.op = "export") =>
        \A k \in 1..Len(last.missions) :
            LET m == last.missions[k]
                split_data == dataset.splits[SplitOf(convert_mission_to_hf_format(m))].data
            IN /\ \E j \in 1..Len(split_data) : ReadBack(m, split_data[j])
               /\ Cardinality(SplitFilesOf(m.id)) = 1

\* the same for an export into a directory without split files
ExportRoundTripFresh ==
    (last # NoRun /\ last.op = "export" /\ last.dir0 = NoSplitFiles) =>
        \A k \in 1..Len(last.missions) :
            LET m == last.missions[k]
                split_data == dataset.splits[SplitOf(convert_mission_to_hf_format(m))].data
            IN /\ \E j \in 1..Len(split_data) : ReadBack(m, split_data[j])
               /\ Cardinality(SplitFilesOf(m.id)) = 1

\* ------------------------------------------- a session over both editors
\* the specs the text editor saves: no state, state a alone, a with a transition
\* to the undefined b or to end, a and b, a with a transition to the defined b
SessionMachines ==
    {<< >>,
     <<NewStateData(STATE_A)>>,
     <<[NewStateData(STATE_A) EXCEPT !.conds = <<Transition(TRUE_COND, STATE_B)>>]>>,
     <<[NewStateData(STATE_A) EXCEPT !.conds = <<Transition(TRUE_COND, END)>>]>>,
     <<NewStateData(STATE_A), NewStateData(STATE_B)>>,
     <<[NewStateData(STATE_A) EXCEPT !.conds = <<Transition(TRUE_COND, STATE_B)>>],
       NewStateData(STATE_B)>>}

\* the file a text-editor save writes for the states m
TextSpec(m) == [initial_state |-> IF m = << >> THEN EmptyStr ELSE STATE_A, states |-> m]

InitSession ==
    /\ \E m \in SessionMachines : disk = TextSpec(m)
    /\ flow = NoFlow
    /\ flow_version = 0
    /\ skip_sync_once = FALSE
    /\ last = NoRun
    /\ graph = NoGraph
    /\ files = NoFiles
    /\ dataset = NoDataset

\* "Save Changes" of render_mission_type_editor: save_mission_types writes the
\* typed spec; the session state of the visual editor is not touched
TextEdit ==
    /\ last = NoRun
    /\ \E m \in SessionMachines :
          /\ TextSpec(m) # disk
          /\ disk' = TextSpec(m)
    /\ last' = [op |-> "text_save", disk0 |-> disk]
    /\ UNCHANGED <<flow, flow_version, skip_sync_once, graph, files, dataset>>

NextSession ==
    \/ Render
    \/ CreateState
    \/ TextEdit
    \/ NextInteraction

SpecSession == InitSession /\ [][NextSession]_vars

\* ------------------------------------------------ properties of a session
IsIdle == IsRun /\ last.op = "idle"

\* every state of the file before the run is a state of the file after it, with the
\* same transitions and the same error transition
NothingRemoved(before, after) ==
    \A i \in 1..Len(before) :
        /\ Has(after, before[i].id)
        /\ CondsOf(Get(after, before[i].id)) = CondsOf(before[i])
        /\ ErrTargetOf(Get(after, before[i].id)) = ErrTargetOf(before[i])

\* C25 (as claimed): a run of the visual editor in which the user edits nothing
\* removes no state and no transition from the file, whatever the session did
\* before, a save of the text editor included.
C25_IdleRenderKeepsSpec ==
    IsIdle => NothingRemoved(last.disk0.states, disk.states)

\* the same for a run whose flow state is the projection of the file
IdleRenderKeepsSpecWhenFresh ==
    (IsIdle /\ last.before.nodes = last.after.nodes /\ last.before.edges = last.after.edges)
        => NothingRemoved(last.disk0.states, disk.states)

\* ----------------------------------------- the passes taken in any order
\* the record after the pass named p applied to the record acc
ApplyPass(p, new_state, g, acc, initial_state) ==
    IF p = "new_edges"
    THEN handle_new_edges(new_state.edges, EdgeIds(g.edges), acc, initial_state)
    ELSE IF p = "deleted_edges"
    THEN handle_deleted_edges(g.edges, EdgeIds(new_state.edges), acc, initial_state)
    ELSE handle_deleted_nodes(g.nodes, FlowNodeIds(new_state), acc, initial_state)

\* the record after the three passes applied in the order ord
PassesInOrder(ord, new_state, g, a0, initial_state) ==
    ApplyPass(ord[3], new_state, g,
        ApplyPass(ord[2], new_state, g,
            ApplyPass(ord[1], new_state, g, a0, initial_state), initial_state), initial_state)

PassOrders == Perms({"new_edges", "deleted_edges", "deleted_nodes"})

\* C26 (as claimed): for every projection and every after-graph, the states the
\* three passes leave are the same in whatever order the passes are applied.
C26_PassesIndependent ==
    IsReconcile =>
        \A ord \in PassOrders :
            LET r == PassesInOrder(ord, last.after, Projection(last.disk0), last.a0,
                                   last.initial_state)
            IN /\ r.states = last.a3.states
               /\ r.crashed = last.a3.crashed

\* the order of the code gives the record of the run
CodeOrderIsRun ==
    IsReconcile =>
        LET r == PassesInOrder(<<"new_edges", "deleted_edges", "deleted_nodes">>, last.after,
                               Projection(last.disk0), last.a0, last.initial_state)
        IN r = last.a3

\* --------------------------------------------------- identity of an edge
\* the transitions without the j-th
RemoveAt(conds, j) == [k \in 1..(Len(conds) - 1) |-> IF k < j THEN conds[k] ELSE conds[k + 1]]

\* the ids of the ordinary edges from the state st to tgt (at most one)
PairEdgeIds(st, tgt) ==
    {StateEdges(st)[k].id : k \in {n \in 1..Len(StateEdges(st)) :
                                      /\ StateEdges(st)[n].target = tgt
                                      /\ ~StateEdges(st)[n].error}}

\* C27 (as claimed): removing from a state A a transition that targets a state other
\* than B leaves the id of the edge (A, B) as it was (and so does inserting it, which
\* is the same pair of specs read the other way).
C27_EdgeIdentityStable ==
    graph.built =>
        \A i \in 1..Len(graph.states) :
            LET st == graph.states[i]
            IN \A j \in 1..Len(CondsOf(st)) : \A tgt \in Targets :
                  tgt # CondsOf(st)[j].next_state
                  => PairEdgeIds([st EXCEPT !.conds = RemoveAt(CondsOf(st), j)], tgt)
                        = PairEdgeIds(st, tgt)

\* the same for a transition after which no transition to B comes
EdgeIdentityStableBehind ==
    graph.built =>
        \A i \in 1..Len(graph.states) :
            LET st == graph.states[i]
            IN \A j \in 1..Len(CondsOf(st)) : \A tgt \in Targets :
                  (/\ tgt # CondsOf(st)[j].next_state
                   /\ \A k \in (j + 1)..Len(CondsOf(st)) : CondsOf(st)[k].next_state # tgt)
                  => PairEdgeIds([st EXCEPT !.conds = RemoveAt(CondsOf(st), j)], tgt)
                        = PairEdgeIds(st, tgt)

\* ------------------------------------------------- properties of creation
IsCreate == IsRun /\ last.op = "create_state"

\* the ids shown as placeholders in the projection of the run
PlaceholderIds(r) == {n.id : n \in {x \in r.before.nodes : ~x.deletable}}

\* the name has a character that is no letter, no digit and no underscore
HasOtherChar(ns) == \E k \in 1..Len(ns) : ns[k] \notin AlnumChars \cup {"_"}

\* C28: creating a state under the name of a placeholder gives a next projection
\* with exactly one node of that id, deletable, and leaves every transition of the
\* other states as it was; creating a state with an empty name, the name of a
\* defined state or a name with a character that is no letter, digit or underscore
\* leaves the spec as it was.
C28_PromotionAndRefusal ==
    IsCreate =>
        /\ last.input \in PlaceholderIds(last)
            => LET nodes == Projection(disk).nodes
               IN /\ Cardinality({k \in 1..Len(nodes) : nodes[k].id = last.input}) = 1
                  /\ \A k \in 1..Len(nodes) : nodes[k].id = last.input => nodes[k].deletable
                  /\ \A i \in 1..Len(last.a0.states) :
                        /\ Has(disk.states, last.a0.states[i].id)
                        /\ Get(disk.states, last.a0.states[i].id) = last.a0.states[i]
        /\ (last.input = EmptyStr \/ Has(last.a0.states, last.input) \/ HasOtherChar(last.input))
            => /\ disk.states = last.a0.states
               /\ disk.initial_state = last.initial_state

\* the placeholder b of the transition a -> b was promoted to a state and a still
\* targets it
C28_Witness ==
    /\ IsCreate
    /\ last.input = STATE_B
    /\ STATE_B \in PlaceholderIds(last)
    /\ Has(disk.states, STATE_B)
    /\ STATE_B \in TargetsOf(CondsOf(Get(disk.states, STATE_A)))

\* a creation was refused for the name of a defined state that has a transition
RefusalReached ==
    /\ IsCreate
    /\ Has(last.a0.states, last.input)
    /\ CondsOf(Get(last.a0.states, last.input)) # << >>

\* ---------------------------------------------- reading back what was saved
\* the files of the name
FilesOf(fs) == {slot \in {"json", "yaml", "yml"} : fs[slot].exists}

\* C29 (as claimed): after save_mission_type(name, cfg, prefer_yaml), whatever
\* prefer_yaml and the files of the name before, the load of the name is cfg without
\* ui_metadata, and the name has at most one file.
C29_ReadYourWrites ==
    (IsSave /\ last.op = "save") =>
        /\ load_mission_type(files) = [last.config EXCEPT !.ui = NoUi]
        /\ Cardinality(FilesOf(files)) <= 1

\* the same for a name without a .yml file, strings apart
ReadYourWritesWithoutYml ==
    (IsSave /\ last.op = "save" /\ ~last.files0.yml.exists) =>
        /\ load_mission_type(files).description = last.config.description
        /\ load_mission_type(files).prompt \in {last.config.prompt, str_representer(last.config.prompt)}
        /\ load_mission_type(files).ui = NoUi
        /\ Cardinality(FilesOf(files)) <= 1

\* --------------------------------------- creation and the render after it
InitSkip ==
    /\ disk = [initial_state |-> EmptyStr, states |-> << >>]
    /\ flow = NoFlow
    /\ flow_version = 0
    /\ skip_sync_once = FALSE
    /\ last = NoRun
    /\ graph = NoGraph
    /\ files = NoFiles
    /\ dataset = NoDataset

\* creations, and runs in which the component returns the flow state as it is or
\* after one edit on the canvas (at most one drawn edge waiting)
NextSkip ==
    \/ CreateState
    \/ Run("touch")
    \/ NextInteraction

SpecSkip == InitSkip /\ [][NextSkip]_vars

\* the step is a script run without a button of the sidebar
RenderStep == last = NoRun /\ last' # NoRun /\ last'.op = "touch"

\* the flow state a run finds or, finding none, stores: the projection of the file
StoredFlow ==
    IF flow.set THEN flow
    ELSE [set |-> TRUE, nodes |-> Range(Projection(disk).nodes), edges |-> Projection(disk).edges]

\* C30: skip_sync_once is set by a creation and by nothing else; the run that finds
\* it set applies none of the three passes, leaves the stored flow state as it is
\* and clears the flag; a run that finds it cleared applies the three passes to what
\* the component returned.
C30_SkipExactlyOnce ==
    [][/\ (skip_sync_once' /\ ~skip_sync_once) => last'.op = "create_state"
       /\ (last = NoRun /\ last' # NoRun /\ last'.op = "create_state" /\ flow_version' # flow_version)
            => skip_sync_once'
       /\ RenderStep =>
            IF skip_sync_once
            THEN /\ last'.a1 = last'.a0 /\ last'.a2 = last'.a0 /\ last'.a3 = last'.a0
                 /\ disk'.states = last'.a0.states
                 /\ flow' = StoredFlow
                 /\ ~skip_sync_once'
            ELSE /\ last'.a3 = PassesInOrder(<<"new_edges", "deleted_edges", "deleted_nodes">>,
                                             last'.after, Projection(disk), last'.a0,
                                             last'.initial_state)
                 /\ ~skip_sync_once']_vars

\* the run after a creation was handed a flow state without the node of the new
\* state, and the state is still in the file
C30_Witness ==
    /\ IsRun
    /\ last.op = "touch"
    /\ ~last.synced
    /\ \E n \in last.before.nodes : n.deletable /\ n.id \notin FlowNodeIds(last.after)
    /\ disk.states = last.a0.states
    /\ disk.states # << >>
    /\ ~skip_sync_once

====
